---- MODULE Spec2Model ----
(***************************************************************************)
(* A model of SwaggerInputsValidator (src/src/validator.ts): the           *)
(* constructor, the per-method and all() middlewares, getErrors and the    *)
(* two type checkers.                                                      *)
(*                                                                         *)
(* JavaScript values are records [k |-> kind, v |-> payload]:              *)
(*   strings are sequences of one-character strings, numbers are counted   *)
(*   in tenths (Num(305) is 30.5), arrays are sequences of values and      *)
(*   objects are sequences of <<key, value>> pairs in insertion order.     *)
(* Schema nodes and parameters are records that carry only the fields the  *)
(* document gives them, so "field is undefined" is "field not in DOMAIN".  *)
(***************************************************************************)
EXTENDS Integers, Sequences, FiniteSets, TLC

VARIABLES
  ctor,       \* the constructor call: its arguments and what it threw
  validator,  \* the SwaggerInputsValidator instance (its private fields)
  handler,    \* the middleware obtained from get/post/.../all
  req,        \* the request the middleware was last called with
  outcome     \* what that call did: errors, fault, calls of next and onError

vars == <<ctor, validator, handler, req, outcome>>

(***************************************************************************)
(* JavaScript values                                                       *)
(***************************************************************************)
Undefined == [k |-> "undefined", v |-> <<>>]
Null == [k |-> "null", v |-> <<>>]
Str(s) == [k |-> "string", v |-> s]
Num(tenths) == [k |-> "number", v |-> tenths]
Bool(b) == [k |-> "boolean", v |-> b]
Arr(a) == [k |-> "array", v |-> a]
Obj(o) == [k |-> "object", v |-> o]
Fun(f) == [k |-> "function", v |-> f]

\* typeof x
TypeOf(x) ==
  CASE x.k = "undefined" -> "undefined"
    [] x.k = "null" -> "object"
    [] x.k = "array" -> "object"
    [] OTHER -> x.k

\* the truthiness of x in a condition
Truthy(x) ==
  CASE x.k = "undefined" -> FALSE
    [] x.k = "null" -> FALSE
    [] x.k = "string" -> x.v # <<>>
    [] x.k = "number" -> x.v # 0
    [] x.k = "boolean" -> x.v
    [] OTHER -> TRUE

\* Object.prototype.toString.call(x) == '[object Array]'
IsArray(x) == x.k = "array"

\* the keys of a sequence of <<key, value>> pairs, in order
KeysOf(pairs) == [i \in 1..Len(pairs) |-> pairs[i][1]]

\* x is among the elements of the sequence s
InSeq(x, s) == \E i \in 1..Len(s) : s[i] = x

\* the value stored under key in a sequence of pairs, Undefined if none
Lookup(pairs, key) ==
  IF \E i \in 1..Len(pairs) : pairs[i][1] = key
    THEN pairs[CHOOSE i \in 1..Len(pairs) : pairs[i][1] = key][2]
    ELSE Undefined


Digits == {"0", "1", "2", "3", "4", "5", "6", "7", "8", "9"}
DigitChars == <<"0", "1", "2", "3", "4", "5", "6", "7", "8", "9">>

RECURSIVE NatToString(_)
NatToString(n) ==
  IF n < 10 THEN <<DigitChars[n + 1]>>
  ELSE NatToString(n \div 10) \o <<DigitChars[(n % 10) + 1]>>

\* String(n) for a number counted in tenths
NumToString(t) ==
  LET a == IF t < 0 THEN -t ELSE t
      whole == NatToString(a \div 10)
      frac == IF a % 10 = 0 THEN <<>> ELSE <<".", DigitChars[(a % 10) + 1]>>
  IN (IF t < 0 THEN <<"-">> ELSE <<>>) \o whole \o frac

RECURSIVE Join(_)
\* String(x): what RegExp.test sees when handed a value that is no string
JSToString(x) ==
  CASE x.k = "string" -> x.v
    [] x.k = "number" -> NumToString(x.v)
    [] x.k = "boolean" -> IF x.v THEN <<"t", "r", "u", "e">> ELSE <<"f", "a", "l", "s", "e">>
    [] x.k = "null" -> <<"n", "u", "l", "l">>
    [] x.k = "undefined" -> <<"u", "n", "d", "e", "f", "i", "n", "e", "d">>
    [] x.k = "array" -> Join(x.v)
    [] OTHER -> <<"[", "o", "b", "j", "e", "c", "t", " ", "O", "b", "j", "e", "c", "t", "]">>

\* Array.prototype.join(','): null and undefined elements give the empty string
Join(a) ==
  IF a = <<>> THEN <<>>
  ELSE LET h == IF a[1].k \in {"null", "undefined"} THEN <<>> ELSE JSToString(a[1])
       IN IF Len(a) = 1 THEN h ELSE h \o <<",">> \o Join(Tail(a))

\* the own enumerable properties of x as <<key, value>> pairs, in the order of
\* Object.keys(x); x is neither null nor undefined
Entries(x) ==
  CASE x.k = "object" -> x.v
    [] x.k = "array" -> [i \in 1..Len(x.v) |-> <<NatToString(i - 1), x.v[i]>>]
    [] x.k = "string" -> [i \in 1..Len(x.v) |-> <<NatToString(i - 1), Str(<<x.v[i]>>)>>]
    [] OTHER -> <<>>

\* x[key] for a key that is no built-in property; x is neither null nor undefined
Get(x, key) == Lookup(Entries(x), key)

(***************************************************************************)
(* simpleTypeChecking and its two filters                                  *)
(***************************************************************************)
InfinityWord == <<"I", "n", "f", "i", "n", "i", "t", "y">>

AllDigits(s) == s # <<>> /\ \A i \in 1..Len(s) : s[i] \in Digits

Unsigned(s) == IF s # <<>> /\ s[1] \in {"-", "+"} THEN Tail(s) ELSE s

\* /^(\-|\+)?([0-9]+|Infinity)$/.test(value)
filterInt(value) ==
  LET s == Unsigned(JSToString(value))
  IN AllDigits(s) \/ s = InfinityWord

\* filterFloat with the digits after the point optional: '5.' passes
filterFloatOpenEnded(value) ==
  LET s == Unsigned(JSToString(value))
  IN \/ AllDigits(s)
     \/ s = InfinityWord
     \/ \E i \in 1..Len(s) : /\ s[i] = "."
                            /\ AllDigits(SubSeq(s, 1, i - 1))
                            /\ \A j \in (i + 1)..Len(s) : s[j] \in Digits

\* /^(\-|\+)?([0-9]+(\.[0-9]+)?|Infinity)$/.test(value)
filterFloat(value) ==
  LET s == Unsigned(JSToString(value))
  IN \/ AllDigits(s)
     \/ s = InfinityWord
     \/ \E i \in 1..Len(s) : /\ s[i] = "."
                            /\ AllDigits(SubSeq(s, 1, i - 1))
                            /\ AllDigits(SubSeq(s, i + 1, Len(s)))

\* the truthiness of simpleTypeChecking's result (no case matching: undefined)
simpleTypeChecking(parameterToControl, swaggerParameter) ==
  LET type == IF "type" \in DOMAIN swaggerParameter THEN swaggerParameter.type ELSE ""
      format == IF "format" \in DOMAIN swaggerParameter THEN swaggerParameter.format ELSE ""
  IN CASE type = "integer" -> filterInt(parameterToControl)
       [] type = "number" ->
            IF format \in {"double", "float"}
              THEN filterFloat(parameterToControl)
              ELSE filterInt(parameterToControl)
       [] type = "boolean" ->
            parameterToControl \in {Str(<<"t", "r", "u", "e">>), Str(<<"f", "a", "l", "s", "e">>)}
       [] type = "array" -> IsArray(parameterToControl)
       [] type = "string" -> parameterToControl.k = "string"
       [] OTHER -> FALSE

(***************************************************************************)
(* References and complexTypeChecking                                      *)
(***************************************************************************)
\* what a lookup that finds nothing hands back in place of a schema node
UndefinedNode == [undefined |-> TRUE]

IsUndefinedNode(node) == "undefined" \in DOMAIN node

RECURSIVE Split(_, _)
\* s.split(sep)
Split(s, sep) ==
  IF \E i \in 1..Len(s) : s[i] = sep
    THEN LET i == CHOOSE j \in 1..Len(s) : s[j] = sep /\ \A m \in 1..(j - 1) : s[m] # sep
         IN <<SubSeq(s, 1, i - 1)>> \o Split(SubSeq(s, i + 1, Len(s)), sep)
    ELSE <<s>>

\* s.replace('#', ''): the first '#' only
RemoveFirstHash(s) ==
  IF \E i \in 1..Len(s) : s[i] = "#"
    THEN LET i == CHOOSE j \in 1..Len(s) : s[j] = "#" /\ \A m \in 1..(j - 1) : s[m] # "#"
         IN SubSeq(s, 1, i - 1) \o SubSeq(s, i + 1, Len(s))
    ELSE s

DefinitionsWord == <<"d", "e", "f", "i", "n", "i", "t", "i", "o", "n", "s">>

\* '#/definitions/' + name
RefTo(name) == <<"#", "/">> \o DefinitionsWord \o <<"/">> \o name

\* what a lookup hands back when the reference has no '/': the document itself,
\* which as a schema node has neither type nor properties
DocumentNode == [swagger |-> "2.0"]

\* Walks the document along the reference; [thrown, node]. The documents of this
\* model hold schema nodes under 'definitions' only, and their references have
\* the form '#/definitions/<name>'.
getObjectFromSwaggerReference(self, swaggerReference) ==
  LET pathToDigInto == Split(RemoveFirstHash(swaggerReference), "/")
      hasDefinitions == "definitions" \in DOMAIN self._swaggerFile
  IN IF Len(pathToDigInto) < 2
       THEN [thrown |-> FALSE, node |-> DocumentNode]
     ELSE IF ~(pathToDigInto[2] = DefinitionsWord /\ hasDefinitions)
       THEN [thrown |-> Len(pathToDigInto) > 2, node |-> UndefinedNode]
     ELSE IF Len(pathToDigInto) = 2
       THEN [thrown |-> FALSE, node |-> DocumentNode]
     ELSE LET pairs == self._swaggerFile.definitions
              found == InSeq(pathToDigInto[3], KeysOf(pairs))
          IN IF Len(pathToDigInto) = 3 /\ found
               THEN [thrown |-> FALSE,
                     node |-> pairs[CHOOSE i \in 1..Len(pairs) : pairs[i][1] = pathToDigInto[3]][2]]
               ELSE [thrown |-> Len(pathToDigInto) > 3 /\ ~found, node |-> UndefinedNode]

\* swaggerModel['$ref'] is set and not empty
HasRef(node) == "ref" \in DOMAIN node /\ node.ref # <<>>

RECURSIVE complexTypeChecking(_, _, _)
RECURSIVE CheckProperties(_, _, _, _, _)
RECURSIVE CheckItems(_, _, _, _, _)

\* CheckProperties with != undefined in place of !== undefined: a property
\* holding null is skipped like one that is left out
CheckPropertiesLoose(self, objectToControl, swaggerModel, i, objectIsCompliant) ==
  IF i > Len(swaggerModel.properties)
    THEN (IF objectIsCompliant THEN "true" ELSE "false")
  ELSE
    LET variableName == swaggerModel.properties[i][1]
        isRequired == "required" \in DOMAIN swaggerModel /\ InSeq(variableName, swaggerModel.required)
    IN IF ~isRequired /\ objectToControl.k = "undefined"
         THEN "TypeError"
       ELSE IF isRequired \/ Get(objectToControl, variableName) \notin {Undefined, Null}
         THEN IF ~objectIsCompliant
                THEN CheckProperties(self, objectToControl, swaggerModel, i + 1, FALSE)
              ELSE IF objectToControl.k = "undefined"
                THEN "TypeError"
              ELSE LET r == complexTypeChecking(self, Get(objectToControl, variableName),
                                                swaggerModel.properties[i][2])
                   IN IF r = "TypeError" THEN "TypeError"
                      ELSE CheckProperties(self, objectToControl, swaggerModel, i + 1, r = "true")
       ELSE CheckProperties(self, objectToControl, swaggerModel, i + 1, objectIsCompliant)

\* the forEach over Object.keys(swaggerModel.properties), from the i-th property on
CheckProperties(self, objectToControl, swaggerModel, i, objectIsCompliant) ==
  IF i > Len(swaggerModel.properties)
    THEN (IF objectIsCompliant THEN "true" ELSE "false")
  ELSE
    LET variableName == swaggerModel.properties[i][1]
        isRequired == "required" \in DOMAIN swaggerModel /\ InSeq(variableName, swaggerModel.required)
    IN IF ~isRequired /\ objectToControl.k = "undefined"
         THEN "TypeError"
       ELSE IF isRequired \/ Get(objectToControl, variableName) # Undefined
         THEN IF ~objectIsCompliant
                THEN CheckProperties(self, objectToControl, swaggerModel, i + 1, FALSE)
              ELSE IF objectToControl.k = "undefined"
                THEN "TypeError"
              ELSE LET r == complexTypeChecking(self, Get(objectToControl, variableName),
                                                swaggerModel.properties[i][2])
                   IN IF r = "TypeError" THEN "TypeError"
                      ELSE CheckProperties(self, objectToControl, swaggerModel, i + 1, r = "true")
       ELSE CheckProperties(self, objectToControl, swaggerModel, i + 1, objectIsCompliant)

\* CheckItems without the loop: no element is checked
CheckItemsSkipped(self, objectToControl, swaggerModel, i, objectIsCompliant) ==
  IF objectIsCompliant THEN "true" ELSE "false"

\* the for loop over the elements of an array, from the i-th element on
CheckItems(self, objectToControl, swaggerModel, i, objectIsCompliant) ==
  IF i > Len(objectToControl.v)
    THEN (IF objectIsCompliant THEN "true" ELSE "false")
  ELSE IF ~objectIsCompliant
    THEN CheckItems(self, objectToControl, swaggerModel, i + 1, FALSE)
  ELSE LET r == complexTypeChecking(self, objectToControl.v[i],
                                    IF "items" \in DOMAIN swaggerModel
                                      THEN swaggerModel.items ELSE UndefinedNode)
       IN IF r = "TypeError" THEN "TypeError"
          ELSE CheckItems(self, objectToControl, swaggerModel, i + 1, r = "true")

\* "true", "false", or "TypeError" when the check throws
complexTypeChecking(self, objectToControl, swaggerModelArg) ==
  IF objectToControl = Null
    THEN (IF self._allowNull THEN "true" ELSE "false")
  ELSE IF IsUndefinedNode(swaggerModelArg)
    THEN "TypeError"
  ELSE
    LET looked == IF HasRef(swaggerModelArg)
                    THEN getObjectFromSwaggerReference(self, swaggerModelArg.ref)
                    ELSE [thrown |-> FALSE, node |-> swaggerModelArg]
        swaggerModel == looked.node
        type == IF "type" \in DOMAIN swaggerModel THEN swaggerModel.type ELSE ""
    IN IF looked.thrown \/ IsUndefinedNode(swaggerModel)
         THEN "TypeError"
       ELSE CASE type = "object" ->
                   IF "properties" \notin DOMAIN swaggerModel
                     THEN "TypeError"
                     ELSE CheckProperties(self, objectToControl, swaggerModel, 1, TRUE)
              [] type = "array" ->
                   IF ~IsArray(objectToControl)
                     THEN "false"
                     ELSE CheckItems(self, objectToControl, swaggerModel, 1, TRUE)
              [] type = "integer" ->
                   IF objectToControl.k = "number" /\ objectToControl.v % 10 = 0
                     THEN "true" ELSE "false"
              [] OTHER ->
                   IF type # "" /\ TypeOf(objectToControl) = type THEN "true" ELSE "false"

\* the calls of complexTypeChecking that fit on the call stack one inside the other
MaxStack == 8

Deeper(a, b) == IF a >= b THEN a ELSE b

RECURSIVE Descent(_, _, _, _)
RECURSIVE DescentProperties(_, _, _, _, _, _)
RECURSIVE DescentItems(_, _, _, _, _, _)

\* DescentProperties reading a property of undefined as undefined
\* (objectToControl?.[variableName]) where the code throws
DescentPropertiesUnguarded(self, objectToControl, swaggerModel, i, objectIsCompliant, room) ==
  IF i > Len(swaggerModel.properties)
    THEN [r |-> IF objectIsCompliant THEN "true" ELSE "false", d |-> 0]
  ELSE
    LET variableName == swaggerModel.properties[i][1]
        isRequired == "required" \in DOMAIN swaggerModel /\ InSeq(variableName, swaggerModel.required)
    IN IF isRequired \/ Get(objectToControl, variableName) # Undefined
         THEN IF ~objectIsCompliant
                THEN DescentProperties(self, objectToControl, swaggerModel, i + 1, FALSE, room)
              ELSE LET c == Descent(self, Get(objectToControl, variableName),
                                    swaggerModel.properties[i][2], room)
                   IN IF c.r \in {"TypeError", "RangeError"} THEN c
                      ELSE LET rest == DescentProperties(self, objectToControl, swaggerModel,
                                                         i + 1, c.r = "true", room)
                           IN [r |-> rest.r, d |-> Deeper(c.d, rest.d)]
       ELSE DescentProperties(self, objectToControl, swaggerModel, i + 1, objectIsCompliant, room)

\* CheckProperties with the calls counted: d is the longest chain of calls of
\* complexTypeChecking made from the i-th property on, room the calls the
\* stack still holds
DescentProperties(self, objectToControl, swaggerModel, i, objectIsCompliant, room) ==
  IF i > Len(swaggerModel.properties)
    THEN [r |-> IF objectIsCompliant THEN "true" ELSE "false", d |-> 0]
  ELSE
    LET variableName == swaggerModel.properties[i][1]
        isRequired == "required" \in DOMAIN swaggerModel /\ InSeq(variableName, swaggerModel.required)
    IN IF ~isRequired /\ objectToControl.k = "undefined"
         THEN [r |-> "TypeError", d |-> 0]
       ELSE IF isRequired \/ Get(objectToControl, variableName) # Undefined
         THEN IF ~objectIsCompliant
                THEN DescentProperties(self, objectToControl, swaggerModel, i + 1, FALSE, room)
              ELSE IF objectToControl.k = "undefined"
                THEN [r |-> "TypeError", d |-> 0]
              ELSE LET c == Descent(self, Get(objectToControl, variableName),
                                    swaggerModel.properties[i][2], room)
                   IN IF c.r \in {"TypeError", "RangeError"} THEN c
                      ELSE LET rest == DescentProperties(self, objectToControl, swaggerModel,
                                                         i + 1, c.r = "true", room)
                           IN [r |-> rest.r, d |-> Deeper(c.d, rest.d)]
       ELSE DescentProperties(self, objectToControl, swaggerModel, i + 1, objectIsCompliant, room)

\* CheckItems with the calls counted
DescentItems(self, objectToControl, swaggerModel, i, objectIsCompliant, room) ==
  IF i > Len(objectToControl.v)
    THEN [r |-> IF objectIsCompliant THEN "true" ELSE "false", d |-> 0]
  ELSE IF ~objectIsCompliant
    THEN DescentItems(self, objectToControl, swaggerModel, i + 1, FALSE, room)
  ELSE LET c == Descent(self, objectToControl.v[i],
                        IF "items" \in DOMAIN swaggerModel
                          THEN swaggerModel.items ELSE UndefinedNode, room)
       IN IF c.r \in {"TypeError", "RangeError"} THEN c
          ELSE LET rest == DescentItems(self, objectToControl, swaggerModel, i + 1,
                                        c.r = "true", room)
               IN [r |-> rest.r, d |-> Deeper(c.d, rest.d)]

\* complexTypeChecking with the calls counted: [r, d], r what the call gives
\* ("RangeError" when a call no longer fits on the stack) and d the depth the
\* recursion reached, this call included
Descent(self, objectToControl, swaggerModelArg, room) ==
  IF room = 0
    THEN [r |-> "RangeError", d |-> 0]
  ELSE IF objectToControl = Null
    THEN [r |-> IF self._allowNull THEN "true" ELSE "false", d |-> 1]
  ELSE IF IsUndefinedNode(swaggerModelArg)
    THEN [r |-> "TypeError", d |-> 1]
  ELSE
    LET looked == IF HasRef(swaggerModelArg)
                    THEN getObjectFromSwaggerReference(self, swaggerModelArg.ref)
                    ELSE [thrown |-> FALSE, node |-> swaggerModelArg]
        swaggerModel == looked.node
        type == IF "type" \in DOMAIN swaggerModel THEN swaggerModel.type ELSE ""
        inner(p) == [r |-> p.r, d |-> 1 + p.d]
    IN IF looked.thrown \/ IsUndefinedNode(swaggerModel)
         THEN [r |-> "TypeError", d |-> 1]
       ELSE CASE type = "object" ->
                   IF "properties" \notin DOMAIN swaggerModel
                     THEN [r |-> "TypeError", d |-> 1]
                     ELSE inner(DescentProperties(self, objectToControl, swaggerModel, 1, TRUE,
                                                  room - 1))
              [] type = "array" ->
                   IF ~IsArray(objectToControl)
                     THEN [r |-> "false", d |-> 1]
                     ELSE inner(DescentItems(self, objectToControl, swaggerModel, 1, TRUE,
                                             room - 1))
              [] type = "integer" ->
                   [r |-> IF objectToControl.k = "number" /\ objectToControl.v % 10 = 0
                            THEN "true" ELSE "false",
                    d |-> 1]
              [] OTHER ->
                   [r |-> IF type # "" /\ TypeOf(objectToControl) = type THEN "true" ELSE "false",
                    d |-> 1]

(***************************************************************************)
(* getErrors                                                               *)
(***************************************************************************)
\* new Error('Parameter : ' + name + text), kept as its three pieces
Msg(name, text) == <<"Parameter : ", name, text>>

NotSpecified(name) == Msg(name, " is not specified.")
WrongType(name) == Msg(name, " does not respect its type.")
WrongTypeQuery(name) ==
  Msg(name, " does not respect its type (or if an array, at least one element doesn't respect the item type).")
Unauthorized(name) == Msg(name, " has an unauthorized value.")
ShouldNotBeSpecified(name) == Msg(name, " should not be specified.")
ExtraValues(name) == Msg(name, " contains extra values.")
PayloadWrongType == <<"Parameter : Playload within the body does not respect its type.">>
PayloadExtraValues == <<"Parameter : Playload wihtin the body contains extra values.">>

\* IsRequired without the comparison with true: any declared 'required' counts
IsRequiredDeclared(parameter) == "required" \in DOMAIN parameter

\* parameter.required is true
IsRequired(parameter) == "required" \in DOMAIN parameter /\ parameter.required

\* OutsideEnum without the search: any value counts as outside a declared enum
OutsideEnumUnsearched(parameter, value) == "enum" \in DOMAIN parameter

\* parameter.enum is set and value is none of its members
OutsideEnum(parameter, value) == "enum" \in DOMAIN parameter /\ ~InSeq(value, parameter.enum)

SchemaOf(parameter) == IF "schema" \in DOMAIN parameter THEN parameter.schema ELSE UndefinedNode

\* one round of the loop over swaggerParameters: [thrown, errors]
ParameterErrors(self, parameter, queryParameters, pathParameters, bodyParameters) ==
  LET name == parameter.name
      none == [thrown |-> FALSE, errors |-> <<>>]
      one(e) == [thrown |-> FALSE, errors |-> <<e>>]
  IN CASE parameter.in = "query" ->
            LET value == Get(queryParameters, name)
            IN IF value = Undefined /\ IsRequired(parameter)
                 THEN one(NotSpecified(name))
                 ELSE [thrown |-> FALSE,
                       errors |->
                         (IF Truthy(value) /\ ~simpleTypeChecking(value, parameter)
                            THEN <<WrongTypeQuery(name)>> ELSE <<>>)
                         \o (IF OutsideEnum(parameter, value)
                                /\ (Truthy(value) \/ IsRequired(parameter))
                               THEN <<Unauthorized(name)>> ELSE <<>>)]
       [] parameter.in = "path" ->
            LET value == Get(pathParameters, name)
            IN IF value \in {Undefined, Null} /\ IsRequired(parameter)
                 THEN one(NotSpecified(name))
                 ELSE [thrown |-> FALSE,
                       errors |->
                         (IF Truthy(value) /\ ~simpleTypeChecking(value, parameter)
                            THEN <<WrongType(name)>> ELSE <<>>)
                         \o (IF OutsideEnum(parameter, value)
                               THEN <<Unauthorized(name)>> ELSE <<>>)]
       [] parameter.in = "body" ->
            IF name # <<>> /\ Get(bodyParameters, name) = Undefined /\ IsRequired(parameter)
              THEN one(NotSpecified(name))
              ELSE LET paramsToCheck == IF name = <<>> THEN bodyParameters
                                        ELSE Get(bodyParameters, name)
                       r == complexTypeChecking(self, paramsToCheck, SchemaOf(parameter))
                   IN IF r = "TypeError" THEN [thrown |-> TRUE, errors |-> <<>>]
                      ELSE IF r = "true" THEN none
                      ELSE IF name # <<>> THEN one(WrongType(name))
                      ELSE one(PayloadWrongType)
       [] parameter.in = "formData" ->
            LET value == Get(bodyParameters, name)
            IN IF value \in {Undefined, Null} /\ IsRequired(parameter)
                 THEN one(NotSpecified(name))
                 ELSE [thrown |-> FALSE,
                       errors |->
                         (IF Truthy(value) /\ ~simpleTypeChecking(value, parameter)
                            THEN <<WrongType(name)>> ELSE <<>>)
                         \o (IF OutsideEnum(parameter, value)
                               THEN <<Unauthorized(name)>> ELSE <<>>)]
       [] OTHER -> none

\* what two stretches of code run one after the other give: the second is not
\* run when the first throws, and a throw discards the errors collected
Then(first, second) ==
  IF first.thrown THEN [thrown |-> TRUE, errors |-> <<>>]
  ELSE IF second.thrown THEN [thrown |-> TRUE, errors |-> <<>>]
  ELSE [thrown |-> FALSE, errors |-> first.errors \o second.errors]

RECURSIVE LoopErrors(_, _, _, _, _, _)
\* the for loop over swaggerParameters, from the i-th parameter on
LoopErrors(self, swaggerParameters, queryParameters, pathParameters, bodyParameters, i) ==
  IF i > Len(swaggerParameters) THEN [thrown |-> FALSE, errors |-> <<>>]
  ELSE Then(ParameterErrors(self, swaggerParameters[i], queryParameters,
                            pathParameters, bodyParameters),
            LoopErrors(self, swaggerParameters, queryParameters,
                       pathParameters, bodyParameters, i + 1))

\* isPresentWithinTheSwagger without the comparison of parameter.in
isPresentAnywhere(swaggerParameters, whereToSearch, variableName) ==
  \E i \in 1..Len(swaggerParameters) : swaggerParameters[i].name = variableName

isPresentWithinTheSwagger(swaggerParameters, whereToSearch, variableName) ==
  \E i \in 1..Len(swaggerParameters) :
    swaggerParameters[i].in = whereToSearch /\ swaggerParameters[i].name = variableName

RECURSIVE isThereVariablesThatShouldNotBeSpecified(_, _, _)
RECURSIVE WalkKeys(_, _, _, _, _)

\* the forEach over Object.keys(bodyParameters), from the i-th key on
WalkKeys(self, bodyParameters, whereToSearch, i, variableToReturn) ==
  LET entries == Entries(bodyParameters)
  IN IF i > Len(entries)
       THEN (IF variableToReturn THEN "true" ELSE "false")
     ELSE
       LET variableName == entries[i][1]
           value == entries[i][2]
           noProperties == IsUndefinedNode(whereToSearch) \/ "properties" \notin DOMAIN whereToSearch
           declared == InSeq(variableName, KeysOf(whereToSearch.properties))
       IN IF TypeOf(value) = "object" /\ ~IsArray(value)
            THEN IF variableToReturn
                   THEN WalkKeys(self, bodyParameters, whereToSearch, i + 1, TRUE)
                 ELSE IF noProperties
                   THEN "TypeError"
                 ELSE LET r == isThereVariablesThatShouldNotBeSpecified(
                                 self, value,
                                 IF declared
                                   THEN Lookup(whereToSearch.properties, variableName)
                                   ELSE UndefinedNode)
                      IN IF r = "TypeError" THEN "TypeError"
                         ELSE WalkKeys(self, bodyParameters, whereToSearch, i + 1, r = "true")
          ELSE IF noProperties
            THEN "TypeError"
          ELSE WalkKeys(self, bodyParameters, whereToSearch, i + 1,
                        variableToReturn \/ ~declared)

\* "true", "false", or "TypeError" when the walk throws
isThereVariablesThatShouldNotBeSpecified(self, bodyParameters, whereToSearchArg) ==
  IF IsUndefinedNode(whereToSearchArg)
    THEN "TypeError"
  ELSE
    LET looked == IF HasRef(whereToSearchArg)
                    THEN getObjectFromSwaggerReference(self, whereToSearchArg.ref)
                    ELSE [thrown |-> FALSE, node |-> whereToSearchArg]
    IN IF looked.thrown \/ bodyParameters \in {Undefined, Null}
         THEN "TypeError"
         ELSE WalkKeys(self, bodyParameters, looked.node, 1, FALSE)

\* the errors of the keys of a map that no parameter of the location declares
UndeclaredKeys(swaggerParameters, whereToSearch, parameters) ==
  LET keys == KeysOf(Entries(parameters))
      bad == {i \in 1..Len(keys) : ~isPresentWithinTheSwagger(swaggerParameters, whereToSearch, keys[i])}
      RECURSIVE from(_)
      from(i) == IF i > Len(keys) THEN <<>>
                 ELSE (IF i \in bad THEN <<ShouldNotBeSpecified(keys[i])>> ELSE <<>>) \o from(i + 1)
  IN from(1)

\* the block run when this._strict is set: [thrown, errors]
StrictErrors(self, swaggerParameters, queryParameters, pathParameters, bodyParameters) ==
  LET simple == UndeclaredKeys(swaggerParameters, "query", queryParameters)
                \o UndeclaredKeys(swaggerParameters, "path", pathParameters)
  IN IF Len(swaggerParameters) = 1 /\ swaggerParameters[1].in = "body"
       THEN LET name == swaggerParameters[1].name
                paramsToCheck == IF name = <<>> THEN bodyParameters
                                 ELSE Get(bodyParameters, name)
                r == isThereVariablesThatShouldNotBeSpecified(
                       self, paramsToCheck, SchemaOf(swaggerParameters[1]))
            IN IF r = "TypeError" THEN [thrown |-> TRUE, errors |-> <<>>]
               ELSE [thrown |-> FALSE,
                     errors |-> simple \o
                       (IF r = "false" THEN <<>>
                        ELSE IF name = <<>> THEN <<PayloadExtraValues>>
                        ELSE <<ExtraValues(name)>>)]
       ELSE [thrown |-> FALSE,
             errors |-> simple \o UndeclaredKeys(swaggerParameters, "formData", bodyParameters)]

\* [thrown, errors]: the errors returned, or thrown when the call throws
getErrors(self, swaggerParameters, queryParameters, pathParameters, bodyParameters) ==
  Then(LoopErrors(self, swaggerParameters, queryParameters, pathParameters, bodyParameters, 1),
       IF Truthy(self._strict)
         THEN StrictErrors(self, swaggerParameters, queryParameters, pathParameters,
                           bodyParameters)
         ELSE [thrown |-> FALSE, errors |-> <<>>])

(***************************************************************************)
(* Regular expressions: the patterns the validator builds are made of      *)
(* literal characters, the group (\w+) and the tail /?(\?[^/]+)?$          *)
(***************************************************************************)
UpperCase == <<"A", "B", "C", "D", "E", "F", "G", "H", "I", "J", "K", "L", "M",
               "N", "O", "P", "Q", "R", "S", "T", "U", "V", "W", "X", "Y", "Z">>
LowerCase == <<"a", "b", "c", "d", "e", "f", "g", "h", "i", "j", "k", "l", "m",
               "n", "o", "p", "q", "r", "s", "t", "u", "v", "w", "x", "y", "z">>

Range(f) == {f[i] : i \in DOMAIN f}

ToLower(c) ==
  IF c \in Range(UpperCase)
    THEN LowerCase[CHOOSE i \in 1..Len(UpperCase) : UpperCase[i] = c]
    ELSE c

\* s.toLowerCase()
toLowerCase(s) == [i \in 1..Len(s) |-> ToLower(s[i])]

\* \w
IsWordChar(c) == c \in Range(UpperCase) \cup Range(LowerCase) \cup Digits \cup {"_"}

WordGroup == <<"(", "\\", "w", "+", ")">>
QueryGroup == <<"(", "\\", "?", "[", "^", "/", "]", "+", ")", "?">>

\* s has the sequence t at position i
HasAt(s, i, t) == i + Len(t) - 1 <= Len(s) /\ SubSeq(s, i, i + Len(t) - 1) = t

RECURSIVE Compile(_, _)
\* the pattern a regular expression source stands for, read from position i on
Compile(source, i) ==
  IF i > Len(source) THEN <<>>
  ELSE IF HasAt(source, i, WordGroup)
    THEN <<[t |-> "word+"]>> \o Compile(source, i + Len(WordGroup))
  ELSE IF HasAt(source, i, QueryGroup)
    THEN <<[t |-> "query?"]>> \o Compile(source, i + Len(QueryGroup))
  ELSE IF source[i] = "$"
    THEN <<[t |-> "end"]>> \o Compile(source, i + 1)
  ELSE IF i < Len(source) /\ source[i + 1] = "?"
    THEN <<[t |-> "opt", c |-> source[i]]>> \o Compile(source, i + 2)
  ELSE <<[t |-> "lit", c |-> source[i]]>> \o Compile(source, i + 1)

RECURSIVE WordRun(_, _)
\* the length of the longest run of \w characters from pos on
WordRun(s, pos) ==
  IF pos <= Len(s) /\ IsWordChar(s[pos]) THEN 1 + WordRun(s, pos + 1) ELSE 0

RECURSIVE NotSlashRun(_, _)
\* the length of the longest run of [^/] characters from pos on
NotSlashRun(s, pos) ==
  IF pos <= Len(s) /\ s[pos] # "/" THEN 1 + NotSlashRun(s, pos + 1) ELSE 0

Largest(S) == CHOOSE n \in S : \A m \in S : m <= n

NoMatch == [ok |-> FALSE, groups |-> <<>>]

RECURSIVE MatchAt(_, _, _, _, _)
\* the backtracking match of pattern[i..] at position pos of s, quantifiers
\* greedy; flags.i ignores case, flags.m lets $ match before a line break
MatchAt(pattern, i, s, pos, flags) ==
  IF i > Len(pattern) THEN [ok |-> TRUE, groups |-> <<>>]
  ELSE
    LET tok == pattern[i]
        same(a, b) == IF flags.i THEN ToLower(a) = ToLower(b) ELSE a = b
        rest(p) == MatchAt(pattern, i + 1, s, p, flags)
    IN CASE tok.t = "lit" ->
              IF pos <= Len(s) /\ same(s[pos], tok.c) THEN rest(pos + 1) ELSE NoMatch
         [] tok.t = "opt" ->
              IF pos <= Len(s) /\ same(s[pos], tok.c) /\ rest(pos + 1).ok
                THEN rest(pos + 1) ELSE rest(pos)
         [] tok.t = "end" ->
              IF pos = Len(s) + 1 \/ (flags.m /\ pos <= Len(s) /\ s[pos] = "\n")
                THEN rest(pos) ELSE NoMatch
         [] tok.t = "word+" ->
              LET fits == {n \in 1..WordRun(s, pos) : rest(pos + n).ok}
              IN IF fits = {} THEN NoMatch
                 ELSE LET n == Largest(fits)
                      IN [ok |-> TRUE,
                          groups |-> <<SubSeq(s, pos, pos + n - 1)>> \o rest(pos + n).groups]
         [] tok.t = "query?" ->
              LET fits == IF pos <= Len(s) /\ s[pos] = "?"
                            THEN {n \in 1..NotSlashRun(s, pos + 1) : rest(pos + 1 + n).ok}
                            ELSE {}
              IN IF fits = {} THEN rest(pos)
                 ELSE LET n == Largest(fits)
                      IN [ok |-> TRUE,
                          groups |-> <<SubSeq(s, pos, pos + n)>> \o rest(pos + 1 + n).groups]

\* s.match(source) without the g flag: the leftmost match, [ok, groups]
Match(s, source, flags) ==
  LET pattern == Compile(source, 1)
      tries == [p \in 1..(Len(s) + 1) |-> MatchAt(pattern, 1, s, p, flags)]
      starts == {p \in DOMAIN tries : tries[p].ok}
  IN IF starts = {} THEN NoMatch
     ELSE tries[CHOOSE p \in starts : \A q \in starts : p <= q]

NoFlags == [i |-> FALSE, m |-> FALSE]
FlagsGMI == [i |-> TRUE, m |-> TRUE]

RECURSIVE ReplaceBraces(_, _)
\* url.replace(/{(\w+)}/gi, ...): [regex, names], read from position i on
ReplaceBraces(url, i) ==
  IF i > Len(url) THEN [regex |-> <<>>, names |-> <<>>]
  ELSE LET n == WordRun(url, i + 1)
       IN IF url[i] = "{" /\ n > 0 /\ i + n + 1 <= Len(url) /\ url[i + n + 1] = "}"
            THEN LET more == ReplaceBraces(url, i + n + 2)
                 IN [regex |-> WordGroup \o more.regex,
                     names |-> <<SubSeq(url, i + 1, i + n)>> \o more.names]
            ELSE LET more == ReplaceBraces(url, i + 1)
                 IN [regex |-> <<url[i]>> \o more.regex, names |-> more.names]

RECURSIVE ReplaceColons(_, _)
\* ReplaceColons without the rewriting: the url from position i on, as given
ReplaceColonsKept(url, i) == SubSeq(url, i, Len(url))

\* url.replace(/:(\w+)/gi, '{' + y + '}'), read from position i on
ReplaceColons(url, i) ==
  IF i > Len(url) THEN <<>>
  ELSE LET n == WordRun(url, i + 1)
       IN IF url[i] = ":" /\ n > 0
            THEN <<"{">> \o SubSeq(url, i + 1, i + n) \o <<"}">> \o ReplaceColons(url, i + n + 1)
            ELSE <<url[i]>> \o ReplaceColons(url, i + 1)

(***************************************************************************)
(* The constructor                                                         *)
(***************************************************************************)
\* a swagger document handed to the constructor: d carries the fields it has
Doc(d) == [k |-> "object", doc |-> d]

\* an options object: fields carries the options it has
Opt(fields) == [k |-> "object", fields |-> fields]

\* options.<name>
Option(options, name) == IF name \in DOMAIN options.fields THEN options.fields[name] ELSE Undefined

\* the instance before the constructor body runs: the field initializers
FreshValidator ==
  [_swaggerFile |-> [none |-> TRUE], _basePath |-> <<>>, _onError |-> Undefined,
   _strict |-> Undefined, _allowNull |-> TRUE, _parsingParameters |-> <<>>, _models |-> <<>>]

\* the entry the constructor pushes for one key of swagger.paths
ParsingParametersOf(url) ==
  LET replaced == ReplaceBraces(url, 1)
  IN [regexp |-> replaced.regex, variables |-> replaced.names, swaggerUrl |-> url]

\* new SwaggerInputsValidator(swagger, options): [thrown, self]; thrown is the
\* message of the error thrown, "" if none
Constructor(swagger, options) ==
  LET threw(message) == [thrown |-> message, self |-> FreshValidator]
  IN IF ~(Truthy(swagger) \/ TypeOf(swagger) = "object")
       THEN threw("Please provide a Swagger file in json format")
     ELSE IF swagger = Null
       THEN threw("TypeError")
     ELSE IF ~("doc" \in DOMAIN swagger /\ "paths" \in DOMAIN swagger.doc)
       THEN threw("The swagger specified is not correct. It do not contains any paths specification")
     ELSE IF Truthy(options) /\ TypeOf(options) # "object"
       THEN threw("The parameter option in not an object")
     ELSE
       LET d == swagger.doc
           onError == Option(options, "onError")
           strict == Option(options, "strict")
           allowNull == Option(options, "allowNull")
           paths == d.paths
       IN IF Truthy(options) /\ Truthy(onError) /\ TypeOf(onError) # "function"
            THEN threw("The parameter onError in not a function")
          ELSE IF Truthy(options) /\ Truthy(strict) /\ TypeOf(strict) # "boolean"
            THEN threw("The parameter strict in not a boolean")
          ELSE IF Truthy(options) /\ Truthy(allowNull) /\ TypeOf(allowNull) # "boolean"
            THEN threw("The parameter allowNull in not a boolean")
          ELSE IF "definitions" \notin DOMAIN d
            THEN threw("TypeError")
          ELSE
            [thrown |-> "",
             self |->
               [_swaggerFile |-> d,
                _basePath |-> IF "basePath" \in DOMAIN d THEN d.basePath ELSE <<>>,
                _onError |-> IF Truthy(options) THEN onError ELSE Undefined,
                _strict |-> IF Truthy(options) THEN Bool(Truthy(strict)) ELSE Undefined,
                _allowNull |-> IF Truthy(options) THEN Truthy(allowNull) ELSE TRUE,
                _parsingParameters |-> [i \in 1..Len(paths) |-> ParsingParametersOf(paths[i][1])],
                _models |-> KeysOf(d.definitions)]]

(***************************************************************************)
(* Lookups: getParsingParameters, getPathParametersFromUrl,                *)
(* getRequiredParameters                                                   *)
(***************************************************************************)
LookupTail == <<"/", "?">> \o QueryGroup \o <<"$">>

\* [found, parsingParameters]: the first entry whose pattern matches the url
getParsingParameters(self, url) ==
  LET matches == {i \in 1..Len(self._parsingParameters) :
                    Match(url, self._basePath \o self._parsingParameters[i].regexp \o LookupTail,
                          FlagsGMI).ok}
  IN IF matches = {} THEN [found |-> FALSE, parsingParameters |-> <<>>]
     ELSE [found |-> TRUE,
           parsingParameters |->
             self._parsingParameters[CHOOSE i \in matches : \A j \in matches : i <= j]]

\* the object built from the url: every variable gets match?.[1]
getPathParametersFromUrl(url, parsingParameters) ==
  LET match == Match(url, parsingParameters.regexp, NoFlags)
      first == IF match.ok /\ Len(match.groups) >= 1 THEN Str(match.groups[1]) ELSE Undefined
      variables == parsingParameters.variables
      \* a later assignment to the same name overwrites, the key keeps its place
      firstAt(i) == \A j \in 1..(i - 1) : variables[j] # variables[i]
      RECURSIVE from(_)
      from(i) == IF i > Len(variables) THEN <<>>
                 ELSE (IF firstAt(i) THEN << <<variables[i], first>> >> ELSE <<>>) \o from(i + 1)
  IN Obj(from(1))

\* [thrown, parameters]
getRequiredParameters(self, verbArg, urlArg) ==
  LET url == ReplaceColons(urlArg, 1)
      verb == toLowerCase(verbArg)
      paths == self._swaggerFile.paths
      hasUrl == InSeq(url, KeysOf(paths))
      operations == paths[CHOOSE i \in 1..Len(paths) : paths[i][1] = url][2]
      hasVerb == hasUrl /\ InSeq(verb, KeysOf(operations))
      operation == operations[CHOOSE i \in 1..Len(operations) : operations[i][1] = verb][2]
  IN IF ~hasVerb
       THEN [thrown |-> TRUE, parameters |-> <<>>]
       ELSE [thrown |-> FALSE,
             parameters |-> IF "parameters" \in DOMAIN operation
                              THEN operation.parameters ELSE <<>>]

(***************************************************************************)
(* The middlewares                                                         *)
(***************************************************************************)
\* what one call of a middleware did
\*   thrown: the call threw; validated: getErrors returned; errors: what it
\*   returned; next: the calls of next, each the sequence of its arguments;
\*   onError: the calls of the configured onError, each its errors argument;
\*   status: the status set on the response, 0 if none
Outcome(thrown, validated, errors, next, onError, status) ==
  [called |-> TRUE, thrown |-> thrown, validated |-> validated, errors |-> errors, next |-> next,
   onError |-> onError, status |-> status]

\* req.body ? req.body : {}
BodyOrEmpty(body) == IF Truthy(body) THEN body ELSE Obj(<<>>)

\* Respond with next(errors) outside the else: called after onError as well
RespondAlsoNext(self, got) ==
  IF got.thrown
    THEN Outcome(TRUE, FALSE, <<>>, <<>>, <<>>, 0)
  ELSE IF Len(got.errors) = 0
    THEN Outcome(FALSE, TRUE, got.errors, << <<>> >>, <<>>, 0)
  ELSE IF Truthy(self._onError)
    THEN Outcome(FALSE, TRUE, got.errors, << <<got.errors>> >>, <<got.errors>>, 400)
  ELSE Outcome(FALSE, TRUE, got.errors, << <<got.errors>> >>, <<>>, 400)

\* the end of a middleware, from what getErrors gave
Respond(self, got) ==
  IF got.thrown
    THEN Outcome(TRUE, FALSE, <<>>, <<>>, <<>>, 0)
  ELSE IF Len(got.errors) = 0
    THEN Outcome(FALSE, TRUE, got.errors, << <<>> >>, <<>>, 0)
  ELSE IF Truthy(self._onError)
    THEN Outcome(FALSE, TRUE, got.errors, <<>>, <<got.errors>>, 400)
  ELSE Outcome(FALSE, TRUE, got.errors, << <<got.errors>> >>, <<>>, 400)

\* the function getGeneriqueMiddleware returns, called with request r
GeneriqueMiddleware(self, swaggerParameters, r) ==
  Respond(self, getErrors(self, swaggerParameters, r.query, r.params, BodyOrEmpty(r.body)))

\* all()'s middleware once the template is found, from what
\* getRequiredParameters gave
AllFound(self, r, parsingParameters, required) ==
  IF required.thrown
    THEN Outcome(TRUE, FALSE, <<>>, <<>>, <<>>, 0)
    ELSE Respond(self, getErrors(self, required.parameters, r.query,
                                 getPathParametersFromUrl(r.url, parsingParameters),
                                 BodyOrEmpty(r.body)))

\* AllLooked without the return after next(): the lookups go on with null
AllLookedNoReturn(self, r, looked) ==
  IF ~looked.found
    THEN Outcome(TRUE, FALSE, <<>>, << <<>> >>, <<>>, 0)
    ELSE AllFound(self, r, looked.parsingParameters,
                  getRequiredParameters(self, r.method, looked.parsingParameters.swaggerUrl))

\* all()'s middleware, from what getParsingParameters gave
AllLooked(self, r, looked) ==
  IF ~looked.found
    THEN Outcome(FALSE, FALSE, <<>>, << <<>> >>, <<>>, 0)
    ELSE AllFound(self, r, looked.parsingParameters,
                  getRequiredParameters(self, r.method, looked.parsingParameters.swaggerUrl))

\* the function all() returns, called with request r
AllMiddleware(self, r) == AllLooked(self, r, getParsingParameters(self, r.url))

(***************************************************************************)
(* Bounds                                                                  *)
(***************************************************************************)
\* the longest parameter list of a generated operation
MaxParams == 2
\* the most fields (over query, path and body together) of a generated request
MaxEntries == 2
\* the longest array in a generated body payload
MaxElems == 1

(***************************************************************************)
(* Documents                                                               *)
(***************************************************************************)
nA == <<"a">>
nB == <<"b">>
nX == <<"x">>
nId == <<"i", "d">>
nLat == <<"l", "a", "t">>
nLon == <<"l", "o", "n">>
nName == <<"n", "a", "m", "e">>
nAge == <<"a", "g", "e">>
nTime == <<"t", "i", "m", "e">>
nCode == <<"c", "o", "d", "e">>
nSub == <<"s", "u", "b">>
nS == <<"s">>
nList == <<"l", "i", "s", "t">>
nN == <<"n">>
nOrder == <<"O", "r", "d", "e", "r">>
nItem == <<"I", "t", "e", "m">>
nTimeModel == <<"T", "i", "m", "e">>
nSubModel == <<"S", "u", "b">>

verbGet == <<"g", "e", "t">>
verbPost == <<"p", "o", "s", "t">>
verbPut == <<"p", "u", "t">>
verbDelete == <<"d", "e", "l", "e", "t", "e">>
verbPatch == <<"p", "a", "t", "c", "h">>
verbHead == <<"h", "e", "a", "d">>

BasePath == <<"/", "v", "1">>
ProductsUrl == <<"/", "p">>
UserUrl == <<"/", "u", "/", "{", "i", "d", "}">>
UserUrlColon == <<"/", "u", "/", ":", "i", "d">>
UsersUrl == <<"/", "u">>
TimeUrl == <<"/", "t">>
OrdersUrl == <<"/", "o">>
PingUrl == <<"/", "g">>
UnknownUrl == <<"/", "z">>

Definitions ==
  << <<nTimeModel, [type |-> "object", required |-> <<nCode>>,
                    properties |-> << <<nCode, [type |-> "integer"]>>,
                                      <<nSub, [ref |-> RefTo(nSubModel)]>> >>]>>,
     <<nSubModel, [type |-> "object",
                   properties |-> << <<nS, [type |-> "string"]>> >>]>>,
     <<nOrder, [type |-> "object",
                properties |-> << <<nList, [type |-> "array", items |-> [ref |-> RefTo(nItem)]]>> >>]>>,
     <<nItem, [type |-> "object", required |-> <<nN>>,
               properties |-> << <<nN, [type |-> "integer"]>> >>]>> >>

TimeParameter(required) ==
  [in |-> "body", name |-> nTime, required |-> required, schema |-> [ref |-> RefTo(nTimeModel)]]
OrderParameter(required) ==
  [in |-> "body", name |-> <<>>, required |-> required, schema |-> [ref |-> RefTo(nOrder)]]

\* a document in the shape of the Uber example the tests load
MainPaths ==
  << <<ProductsUrl, << <<verbGet, [parameters |->
          << [in |-> "query", name |-> nLat, required |-> TRUE, type |-> "number", format |-> "double"],
             [in |-> "query", name |-> nLon, required |-> TRUE, type |-> "number", format |-> "double"] >>]>> >> >>,
     <<UserUrl, << <<verbGet, [parameters |->
          << [in |-> "path", name |-> nId, required |-> TRUE, type |-> "integer"] >>]>> >> >>,
     <<UsersUrl, << <<verbPost, [parameters |->
          << [in |-> "query", name |-> nName, required |-> TRUE, type |-> "string"],
             [in |-> "formData", name |-> nAge, required |-> TRUE, type |-> "integer"] >>]>> >> >>,
     <<TimeUrl, << <<verbPost, [parameters |-> <<TimeParameter(TRUE)>>]>> >> >>,
     <<OrdersUrl, << <<verbPost, [parameters |-> <<OrderParameter(TRUE)>>]>> >> >>,
     <<PingUrl, << <<verbGet, [summary |-> "no parameters"]>> >> >> >>

MainDocument == [basePath |-> BasePath, paths |-> MainPaths, definitions |-> Definitions]
NoDefinitionsDocument == [basePath |-> BasePath, paths |-> MainPaths]
NoPathsDocument == [basePath |-> BasePath, definitions |-> Definitions]

\* a document with one operation, post /p, declaring the given parameters
DocumentOf(parameters) ==
  [basePath |-> BasePath,
   paths |-> << <<ProductsUrl, << <<verbPost, [parameters |-> parameters]>> >> >> >>,
   definitions |-> Definitions]

UserMeUrl == <<"/", "u", "/", "m", "e">>
UserOrderUrl == <<"/", "u", "/", "{", "i", "d", "}", "/", "o", "/", "{", "n", "}">>

\* a document whose templates overlap (/u/{id} and /u/me both fit /u/me) and
\* one of whose templates has two variables
LookupPaths ==
  << <<UserUrl, << <<verbGet, [parameters |->
          << [in |-> "path", name |-> nId, required |-> TRUE, type |-> "integer"] >>]>> >> >>,
     <<UserMeUrl, << <<verbGet, [summary |-> "no parameters"]>> >> >>,
     <<UserOrderUrl, << <<verbGet, [parameters |->
          << [in |-> "path", name |-> nId, required |-> TRUE, type |-> "integer"],
             [in |-> "path", name |-> nN, required |-> TRUE, type |-> "integer"] >>]>> >> >> >>

LookupDocument == [basePath |-> BasePath, paths |-> LookupPaths, definitions |-> Definitions]

(***************************************************************************)
(* Inputs: constructor arguments, operations and requests                  *)
(***************************************************************************)
aFunction == Fun("errorHandler")
sWrong == Str(<<"w", "r", "o", "n", "g">>)
s5 == Str(<<"5">>)
s7 == Str(<<"7">>)
sX == Str(<<"x">>)
sEmpty == Str(<<>>)

\* what is handed to the constructor as the document
SwaggerArguments ==
  {Undefined, Null, Str(<<"f", "a", "k", "e">>), Num(0),
   Doc(NoPathsDocument), Doc(NoDefinitionsDocument), Doc(MainDocument)}

\* every options object over three values per field, absent included
OptionObjects ==
  LET with(name, values) == {[x \in {name} |-> v] : v \in values} \cup {<<>>}
      onErrors == with("onError", {aFunction, sWrong, Num(0)})
      stricts == with("strict", {Bool(TRUE), Bool(FALSE), sWrong, sEmpty})
      allowNulls == with("allowNull", {Bool(TRUE), Bool(FALSE), sWrong, Num(0)})
      merge(f, g) == [x \in (DOMAIN f) \cup (DOMAIN g) |-> IF x \in DOMAIN f THEN f[x] ELSE g[x]]
  IN {Opt(merge(a, merge(b, c))) : a \in onErrors, b \in stricts, c \in allowNulls}

\* what is handed to the constructor as the options
OptionArguments == {Undefined, sWrong, sEmpty} \cup OptionObjects

\* the i-th parameter of a generated operation is named a, b, c, cc, ...: the
\* parameters of an operation have distinct names, the name being what the
\* messages of getErrors tell them apart by
NameAt(i) ==
  IF i = 1 THEN nA
  ELSE IF i = 2 THEN nB
  ELSE [j \in 1..(i - 2) |-> "c"]

\* the declarations of a query, path or formData parameter: integer, with or
\* without the enum ['5']
SimpleParameters(name) ==
  LET plain == {[in |-> l, name |-> name, required |-> r, type |-> "integer"] :
                  l \in {"query", "path", "formData"}, r \in BOOLEAN}
  IN plain \cup {[in |-> q.in, name |-> q.name, required |-> q.required, type |-> q.type,
                  enum |-> <<s5>>] : q \in plain}

RECURSIVE ParameterListsOfLength(_)
ParameterListsOfLength(n) ==
  IF n = 0 THEN {<<>>}
  ELSE {Append(l, q) : l \in ParameterListsOfLength(n - 1), q \in SimpleParameters(NameAt(n))}

ParameterLists == UNION {ParameterListsOfLength(n) : n \in 0..MaxParams}

BodyParameters == {TimeParameter(r) : r \in BOOLEAN} \cup {OrderParameter(r) : r \in BOOLEAN}

\* the names the parameters declare, in order, each once, then the name x
KeySequence(swaggerParameters) ==
  LET RECURSIVE from(_)
      from(i) == IF i > Len(swaggerParameters) THEN <<>>
                 ELSE (IF \A j \in 1..(i - 1) : swaggerParameters[j].name # swaggerParameters[i].name
                         THEN <<swaggerParameters[i].name>> ELSE <<>>) \o from(i + 1)
  IN from(1) \o <<nX>>

\* one field of a request: <<location, key, value>>
FieldsOver(keys) ==
  ({"query"} \X keys \X {sEmpty, s5, sX})
    \cup ({"path"} \X keys \X {s5, sX})
    \cup ({"body"} \X keys \X {Null, s5, sX})

RECURSIVE FieldSets(_, _)
\* the sets of at most n fields, no two for the same location and key
FieldSets(fields, n) ==
  IF n = 0 THEN {{}}
  ELSE LET smaller == FieldSets(fields, n - 1)
           free(fs) == {g \in fields : \A h \in fs : <<h[1], h[2]>> # <<g[1], g[2]>>}
       IN smaller \cup UNION {{fs \cup {f} : f \in free(fs)} : fs \in smaller}

\* the object holding the fields of one location, keys in the order of keySeq
ObjectOf(fs, location, keySeq) ==
  LET RECURSIVE from(_)
      from(i) == IF i > Len(keySeq) THEN <<>>
                 ELSE LET here == {f \in fs : f[1] = location /\ f[2] = keySeq[i]}
                      IN (IF here = {} THEN <<>>
                          ELSE << <<keySeq[i], (CHOOSE f \in here : TRUE)[3]>> >>) \o from(i + 1)
  IN Obj(from(1))

Request(method, url, query, params, body) ==
  [method |-> method, url |-> url, query |-> query, params |-> params, body |-> body]

POST == <<"P", "O", "S", "T">>
GET == <<"G", "E", "T">>
PUT == <<"P", "U", "T">>

\* the requests given to a handler whose operation declares no body parameter
SimpleRequests(swaggerParameters) ==
  LET keySeq == KeySequence(swaggerParameters)
  IN {Request(POST, BasePath \o ProductsUrl, ObjectOf(fs, "query", keySeq),
              ObjectOf(fs, "path", keySeq), ObjectOf(fs, "body", keySeq)) :
        fs \in FieldSets(FieldsOver(Range(keySeq)), MaxEntries)}

RECURSIVE Payloads(_)
RECURSIVE PropertyChoices(_, _)
RECURSIVE ArraysOver(_, _)

\* the sequences of <<name, value>> pairs over the properties from the i-th on:
\* each property absent or holding one of its payloads
PropertyChoices(properties, i) ==
  IF i > Len(properties) THEN {<<>>}
  ELSE LET rest == PropertyChoices(properties, i + 1)
       IN rest \cup {<< <<properties[i][1], v>> >> \o r : v \in Payloads(properties[i][2]), r \in rest}

ArraysOver(elements, n) ==
  IF n = 0 THEN {<<>>}
  ELSE LET shorter == ArraysOver(elements, n - 1)
       IN shorter \cup {Append(a, e) : a \in {b \in shorter : Len(b) = n - 1}, e \in elements}

\* an undeclared property: none, or x holding a scalar, an object or an array
ExtraProperties ==
  {<<>>, << <<nX, sX>> >>, << <<nX, Obj(<< <<nS, sX>> >>)>> >>, << <<nX, Arr(<<sX>>)>> >>}

\* payloads for a schema node: conforming ones, and ones with a wrong type, a
\* null, a missing property or an undeclared property at any place
Payloads(nodeArg) ==
  LET node == IF HasRef(nodeArg)
                THEN Lookup(Definitions, Split(nodeArg.ref, "/")[3])
                ELSE nodeArg
  IN CASE node.type = "object" ->
            {Obj(declared \o extra) : declared \in PropertyChoices(node.properties, 1),
                                      extra \in ExtraProperties}
              \cup {Null, sX}
       [] node.type = "array" ->
            {Arr(a) : a \in ArraysOver(Payloads(node.items), MaxElems)} \cup {Null, sX}
       [] node.type = "integer" -> {Num(300), Num(305), sX, Null}
       [] node.type = "string" -> {sX, Num(10), Null}
       [] OTHER -> {sX, Null}

\* the requests given to a handler whose operation declares the body parameter
BodyRequests(parameter) ==
  LET bodies == IF parameter.name = <<>>
                  THEN Payloads(parameter.schema) \cup {Undefined}
                  ELSE {Obj(<< <<parameter.name, v>> >>) : v \in Payloads(parameter.schema)}
                         \cup {Obj(<<>>), Undefined}
  IN {Request(POST, BasePath \o ProductsUrl, Obj(<<>>), Obj(<<>>), b) : b \in bodies}

\* the requests a handler bound to swaggerParameters is called with
RequestsFor(swaggerParameters) ==
  LET bodyAt == {i \in 1..Len(swaggerParameters) : swaggerParameters[i].in = "body"}
  IN IF bodyAt = {} THEN SimpleRequests(swaggerParameters)
     ELSE BodyRequests(swaggerParameters[CHOOSE i \in bodyAt : TRUE])

\* '?' + key + '=' + value + '&' + ...: the query string the map was parsed from
QueryString(query) ==
  LET RECURSIVE from(_)
      from(i) == IF i > Len(query.v) THEN <<>>
                 ELSE (IF i = 1 THEN <<"?">> ELSE <<"&">>)
                        \o query.v[i][1] \o <<"=">> \o query.v[i][2].v \o from(i + 1)
  IN from(1)

\* the paths of the urls the all() handler is called with
AllPaths ==
  { BasePath \o ProductsUrl,
    BasePath \o ProductsUrl \o <<"/">>,
    <<"/", "V", "1", "/", "P">>,
    <<"/", "x">> \o BasePath \o ProductsUrl,
    BasePath \o <<"/", "u", "/", "5", "0">>,
    BasePath \o <<"/", "u", "/", "x">>,
    BasePath \o <<"/", "u", "/", "5", "/", "z">>,
    BasePath \o UserMeUrl,
    BasePath \o <<"/", "u", "/", "5", "/", "o", "/", "x">>,
    BasePath \o <<"/", "u", "/", "x", "/", "o", "/", "7">>,
    BasePath \o UsersUrl,
    BasePath \o TimeUrl,
    BasePath \o OrdersUrl,
    BasePath \o PingUrl,
    BasePath \o UnknownUrl,
    BasePath,
    ProductsUrl,
    <<"/", "q">> }

AllQueries ==
  { Obj(<<>>),
    Obj(<< <<nLat, s5>>, <<nLon, s5>> >>),
    Obj(<< <<nLat, sX>> >>),
    Obj(<< <<nName, sX>> >>) }

AllBodies ==
  { Undefined,
    Obj(<< <<nAge, Num(90)>> >>),
    Obj(<< <<nTime, Obj(<< <<nCode, Num(300)>> >>)>> >>),
    Obj(<< <<nList, Arr(<<>>)>>, <<nX, sX>> >>) }

\* the requests the all() handler is called with; req.params is empty there
AllRequests ==
  {Request(m, path \o QueryString(q), q, Obj(<<>>), b) :
     m \in {GET, POST, PUT}, path \in AllPaths, q \in AllQueries, b \in AllBodies}

(***************************************************************************)
(* The state machine                                                       *)
(***************************************************************************)
NoCall == [called |-> FALSE, swagger |-> Undefined, options |-> Undefined, thrown |-> ""]
NoValidator == [none |-> TRUE]
NoHandler == [kind |-> "none"]
NoRequest == Request(<<>>, <<>>, Obj(<<>>), Obj(<<>>), Undefined)
NoOutcome ==
  [called |-> FALSE, thrown |-> FALSE, validated |-> FALSE, errors |-> <<>>, next |-> <<>>,
   onError |-> <<>>, status |-> 0]

\* a validator exists
Constructed == ctor.called /\ ctor.thrown = ""

\* the state after new SwaggerInputsValidator(swagger, options)
AfterConstructor(swagger, options) ==
  /\ Constructor(swagger, options).thrown = ""
  /\ validator \in {Constructor(swagger, options).self}
  /\ ctor = [called |-> TRUE, swagger |-> swagger, options |-> options, thrown |-> ""]

\* the handler validator.<verb>(url) returns, or the record of its throwing
Registered(verb, url, required) ==
  IF required.thrown
    THEN [kind |-> "thrown", verb |-> verb, url |-> url]
    ELSE [kind |-> "generic", verb |-> verb, url |-> url,
          swaggerParameters |-> required.parameters]

HandlerOf(self, verb, url) == Registered(verb, url, getRequiredParameters(self, verb, url))

Init ==
  /\ ctor = NoCall
  /\ validator = NoValidator
  /\ handler = NoHandler
  /\ req = NoRequest
  /\ outcome = NoOutcome

\* new SwaggerInputsValidator(swagger, options)
Construct ==
  /\ ~ctor.called
  /\ \E swagger \in SwaggerArguments, options \in OptionArguments :
       \E made \in {Constructor(swagger, options)} :
         /\ ctor' = [called |-> TRUE, swagger |-> swagger, options |-> options,
                     thrown |-> made.thrown]
         /\ validator' = IF made.thrown = "" THEN made.self ELSE NoValidator
  /\ UNCHANGED <<handler, req, outcome>>

RegisteredUrls ==
  {ProductsUrl, UserUrl, UserUrlColon, UsersUrl, TimeUrl, OrdersUrl, PingUrl, UnknownUrl}

\* validator.<verb>(url): getRequiredParameters, then getGeneriqueMiddleware
Method(verb) ==
  /\ Constructed
  /\ ~outcome.called
  /\ \E url \in RegisteredUrls : handler' = HandlerOf(validator, verb, url)
  /\ req' = NoRequest
  /\ outcome' = NoOutcome
  /\ UNCHANGED <<ctor, validator>>

get == Method(verbGet)
post == Method(verbPost)
put == Method(verbPut)
delete == Method(verbDelete)
patch == Method(verbPatch)
head == Method(verbHead)

\* validator.all()
all ==
  /\ Constructed
  /\ ~outcome.called
  /\ handler' = [kind |-> "all"]
  /\ req' = NoRequest
  /\ outcome' = NoOutcome
  /\ UNCHANGED <<ctor, validator>>

\* a request reaches the middleware a per-method registration returned
Handle ==
  /\ handler.kind = "generic"
  /\ ~outcome.called
  /\ \E r \in RequestsFor(handler.swaggerParameters) :
       /\ req' = r
       /\ outcome' = GeneriqueMiddleware(validator, handler.swaggerParameters, r)
  /\ UNCHANGED <<ctor, validator, handler>>

\* a request reaches the middleware all() returned
HandleAll ==
  /\ handler.kind = "all"
  /\ ~outcome.called
  /\ \E r \in AllRequests :
       /\ req' = r
       /\ outcome' = AllMiddleware(validator, r)
  /\ UNCHANGED <<ctor, validator, handler>>

Next == Construct \/ get \/ post \/ put \/ delete \/ patch \/ head \/ all \/ Handle \/ HandleAll

Spec == Init /\ [][Next]_vars

\* getErrors over generated operations of query, path and formData parameters:
\* the validator is built from the document of one such operation, strict or
\* not, and the handler of that operation is registered
InitParams ==
  \E parameters \in ParameterLists, strict \in BOOLEAN :
    /\ AfterConstructor(Doc(DocumentOf(parameters)),
                        Opt([strict |-> Bool(strict), onError |-> aFunction]))
    /\ handler = HandlerOf(validator, verbPost, ProductsUrl)
    /\ req = NoRequest
    /\ outcome = NoOutcome

NextParams == Handle

SpecParams == InitParams /\ [][NextParams]_vars

\* getErrors over operations declaring one body parameter, for each setting of
\* strict and allowNull
InitBody ==
  \E parameter \in BodyParameters, strict \in BOOLEAN, allowNull \in BOOLEAN :
    /\ AfterConstructor(Doc(DocumentOf(<<parameter>>)),
                        Opt([strict |-> Bool(strict), allowNull |-> Bool(allowNull),
                             onError |-> aFunction]))
    /\ handler = HandlerOf(validator, verbPost, ProductsUrl)
    /\ req = NoRequest
    /\ outcome = NoOutcome

NextBody == Handle

SpecBody == InitBody /\ [][NextBody]_vars

\* the all() middleware of a validator built from the document of overlapping
\* templates, strict or not
InitLookup ==
  \E options \in {Undefined, Opt([strict |-> Bool(TRUE)]), Opt([onError |-> aFunction])} :
    /\ AfterConstructor(Doc(LookupDocument), options)
    /\ handler = [kind |-> "all"]
    /\ req = NoRequest
    /\ outcome = NoOutcome

NextLookup == HandleAll

SpecLookup == InitLookup /\ [][NextLookup]_vars

\* the requests a middleware is called with one after the other
RepeatRequests ==
  {r \in AllRequests : r.method = POST /\ r.query \in {Obj(<<>>), Obj(<< <<nName, sX>> >>)}}

\* HandleAllAgain keeping the keys of the last body in this._models
HandleAllAgainRemembering ==
  /\ handler.kind = "all"
  /\ \E r \in RepeatRequests :
       /\ req' = r
       /\ outcome' = AllMiddleware(validator, r)
       /\ validator' = [validator EXCEPT !._models = KeysOf(Entries(BodyOrEmpty(r.body)))]
  /\ UNCHANGED <<ctor, handler>>

\* the middleware all() returned is called with one more request, whatever
\* requests it was called with before
HandleAllAgain ==
  /\ handler.kind = "all"
  /\ \E r \in RepeatRequests :
       /\ req' = r
       /\ outcome' = AllMiddleware(validator, r)
  /\ UNCHANGED <<ctor, validator, handler>>

\* one validator on the main document, strict or not, whose all() middleware
\* serves any sequence of requests
InitRepeat ==
  \E strict \in BOOLEAN :
    /\ AfterConstructor(Doc(MainDocument), Opt([strict |-> Bool(strict), allowNull |-> Bool(TRUE)]))
    /\ handler = [kind |-> "all"]
    /\ req = NoRequest
    /\ outcome = NoOutcome

NextRepeat == HandleAllAgain

SpecRepeat == InitRepeat /\ [][NextRepeat]_vars

\* urls made of the base path and an instance of a declared template, with or
\* without a trailing slash, with or without a query string; one query
\* string holds a '/'
UrlRequests ==
  LET instances == {BasePath \o ProductsUrl, BasePath \o <<"/", "u", "/", "5", "0">>,
                    BasePath \o UsersUrl, BasePath \o TimeUrl, BasePath \o OrdersUrl,
                    BasePath \o PingUrl}
      queries == {Obj(<<>>), Obj(<< <<nLat, s5>>, <<nLon, s5>> >>), Obj(<< <<nName, sX>> >>),
                  Obj(<< <<nName, Str(<<"a", "/", "b">>)>> >>)}
  IN {Request(m, path \o tail \o QueryString(q), q, Obj(<<>>), b) :
        m \in {GET, POST}, path \in instances, tail \in {<<>>, <<"/">>}, q \in queries,
        b \in {Undefined, Obj(<< <<nAge, Num(90)>> >>)}}

\* a request for a declared template reaches the middleware all() returned
HandleUrl ==
  /\ handler.kind = "all"
  /\ ~outcome.called
  /\ \E r \in UrlRequests :
       /\ req' = r
       /\ outcome' = AllMiddleware(validator, r)
  /\ UNCHANGED <<ctor, validator, handler>>

SpecUrl == InitRepeat /\ [][HandleUrl]_vars

\* the longest strings enumerated for simpleTypeChecking
MaxChars == 3

RECURSIVE StringsUpTo(_, _)
\* the strings of at most n characters over the alphabet
StringsUpTo(alphabet, n) ==
  IF n = 0 THEN {<<>>}
  ELSE LET shorter == StringsUpTo(alphabet, n - 1)
       IN shorter \cup {Append(t, c) : t \in {u \in shorter : Len(u) = n - 1}, c \in alphabet}

\* the strings handed to simpleTypeChecking: signs, digits and points in any
\* arrangement, and the words the filters and the boolean case read
SimpleValues ==
  StringsUpTo({"5", "0", ".", "-", "+"}, MaxChars)
    \cup { InfinityWord, <<"-">> \o InfinityWord, <<"+">> \o InfinityWord,
           InfinityWord \o <<".", "5">>, <<"i", "n", "f", "i", "n", "i", "t", "y">>,
           <<"-", "5", ".", "5", "0">>, <<"5", ".", "5", ".", "5">>, <<"5", "x">>, <<"x">>,
           <<"t", "r", "u", "e">>, <<"f", "a", "l", "s", "e">>, <<"T", "r", "u", "e">>,
           <<"t", "r", "u", "e", " ">> }

\* the declarations simpleTypeChecking reads the type and the format of
SimpleDeclarations ==
  { [type |-> "integer"], [type |-> "number"], [type |-> "number", format |-> "float"],
    [type |-> "number", format |-> "double"], [type |-> "number", format |-> "int32"],
    [type |-> "boolean"], [type |-> "string"] }

\* a string and a declaration are at hand, simpleTypeChecking is not yet called
InitSimple ==
  \E value \in SimpleValues, parameter \in SimpleDeclarations :
    /\ ctor = NoCall
    /\ validator = NoValidator
    /\ handler = [kind |-> "simpleTypeChecking"]
    /\ req = [value |-> Str(value), parameter |-> parameter]
    /\ outcome = [called |-> FALSE, result |-> FALSE]

\* simpleTypeChecking(value, parameter)
CheckSimple ==
  /\ handler.kind = "simpleTypeChecking"
  /\ ~outcome.called
  /\ outcome' = [called |-> TRUE, result |-> simpleTypeChecking(req.value, req.parameter)]
  /\ UNCHANGED <<ctor, validator, handler, req>>

SpecSimple == InitSimple /\ [][CheckSimple]_vars

nAlias == <<"A", "l", "i", "a", "s">>
nNode == <<"N", "o", "d", "e">>
nTree == <<"T", "r", "e", "e">>
nTwig == <<"T", "w", "i", "g">>
nNext == <<"n", "e", "x", "t">>
nKids == <<"k", "i", "d", "s">>

\* the definitions of the main document, a definition that is itself a
\* reference, and definitions that refer to themselves: Node through a
\* required property and through the items of an array, Tree through an
\* optional property by way of Twig
SchemaDefinitions ==
  Definitions \o
  << <<nAlias, [ref |-> RefTo(nSubModel)]>>,
     <<nNode, [type |-> "object", required |-> <<nNext>>,
               properties |-> << <<nNext, [ref |-> RefTo(nNode)]>>,
                                 <<nKids, [type |-> "array", items |-> [ref |-> RefTo(nNode)]]>> >>]>>,
     <<nTree, [type |-> "object", properties |-> << <<nSub, [ref |-> RefTo(nTwig)]>> >>]>>,
     <<nTwig, [type |-> "object", properties |-> << <<nSub, [ref |-> RefTo(nTree)]>> >>]>> >>

SchemaDocument == [basePath |-> BasePath, paths |-> MainPaths, definitions |-> SchemaDefinitions]

\* values of every kind, whatever the schema node
AnyValues ==
  {Undefined, Null, sX, Num(300), Num(305), Bool(TRUE), Arr(<<>>), Arr(<<sX>>),
   Arr(<<Num(300)>>), Obj(<<>>), Obj(<< <<nX, sX>> >>)}

\* payloads for the definitions that refer to themselves, nested up to three deep
NestedValues ==
  {Obj(<< <<nNext, Null>> >>),
   Obj(<< <<nNext, Obj(<<>>)>> >>),
   Obj(<< <<nNext, Obj(<< <<nNext, Null>> >>)>> >>),
   Obj(<< <<nNext, Obj(<< <<nNext, Obj(<< <<nNext, sX>> >>)>> >>)>> >>),
   Obj(<< <<nNext, Null>>, <<nKids, Arr(<<Obj(<< <<nNext, Null>> >>)>>)>> >>),
   Obj(<< <<nNext, Null>>, <<nKids, Arr(<<Obj(<<>>)>>)>> >>),
   Obj(<< <<nKids, Arr(<<>>)>> >>),
   Obj(<< <<nSub, Obj(<<>>)>> >>),
   Obj(<< <<nSub, Obj(<< <<nSub, Obj(<< <<nSub, Obj(<<>>)>> >>)>> >>)>> >>),
   Obj(<< <<nSub, Obj(<< <<nSub, sX>> >>)>> >>),
   Obj(<< <<nS, sX>> >>),
   Obj(<< <<nS, Num(10)>> >>)}

\* schema nodes whose payloads are enumerated from the node
EnumeratedNodes ==
  {[ref |-> RefTo(nTimeModel)], [ref |-> RefTo(nOrder)], [ref |-> RefTo(nItem)],
   [type |-> "object", properties |-> << <<nS, [type |-> "string"]>> >>],
   [type |-> "object", required |-> <<nS>>, properties |-> << <<nS, [type |-> "string"]>> >>],
   [type |-> "object", required |-> <<nSub>>,
    properties |-> << <<nSub, [type |-> "object",
                               properties |-> << <<nS, [type |-> "string"]>> >>]>> >>],
   [type |-> "object", required |-> <<nSub>>,
    properties |-> << <<nSub, [type |-> "object", properties |-> <<>>]>> >>],
   [type |-> "object", required |-> <<>>, properties |-> <<>>],
   [type |-> "array", items |-> [type |-> "integer"]],
   [type |-> "array", items |-> [type |-> "string"]],
   [type |-> "array", items |-> [type |-> "boolean"]],
   [type |-> "array", items |-> [ref |-> RefTo(nItem)]],
   [type |-> "array", items |-> [type |-> "array", items |-> [type |-> "integer"]]],
   [type |-> "integer"], [type |-> "string"], [type |-> "number"], [type |-> "boolean"]}

\* schema nodes that are or reach a reference to a reference or to themselves
ReferringNodes ==
  {[ref |-> RefTo(nAlias)], [ref |-> RefTo(nSubModel)], [ref |-> RefTo(nNode)],
   [ref |-> RefTo(nTree)],
   [type |-> "object", properties |-> << <<nSub, [ref |-> RefTo(nAlias)]>> >>],
   [type |-> "array", items |-> [ref |-> RefTo(nNode)]]}

\* <<value, node>>: what complexTypeChecking and the strict walk are handed
StructuralInputs ==
  UNION {(Payloads(node) \cup AnyValues) \X {node} : node \in EnumeratedNodes}
    \cup ((NestedValues \cup AnyValues) \X ReferringNodes)

\* a validator on the schema document, allowNull on or off, and a value and a
\* schema node at hand
InitStructural ==
  \E allowNull \in BOOLEAN, input \in StructuralInputs :
    /\ AfterConstructor(Doc(SchemaDocument), Opt([allowNull |-> Bool(allowNull)]))
    /\ handler = [kind |-> "structural"]
    /\ req = [value |-> input[1], node |-> input[2]]
    /\ outcome = [called |-> FALSE, op |-> "", result |-> ""]

\* complexTypeChecking(value, node), and the depth its recursion reaches
CheckStructure ==
  /\ handler.kind = "structural"
  /\ ~outcome.called
  /\ outcome' = [called |-> TRUE, op |-> "complexTypeChecking",
                 result |-> complexTypeChecking(validator, req.value, req.node),
                 calls |-> Descent(validator, req.value, req.node, MaxStack)]
  /\ UNCHANGED <<ctor, validator, handler, req>>

\* isThereVariablesThatShouldNotBeSpecified(value, node)
WalkStructure ==
  /\ handler.kind = "structural"
  /\ ~outcome.called
  /\ outcome' = [called |-> TRUE, op |-> "isThereVariablesThatShouldNotBeSpecified",
                 result |-> isThereVariablesThatShouldNotBeSpecified(validator, req.value, req.node)]
  /\ UNCHANGED <<ctor, validator, handler, req>>

NextStructural == CheckStructure \/ WalkStructure

SpecStructural == InitStructural /\ [][NextStructural]_vars

\* getErrors over operations that declare a body parameter alone or next to a
\* path parameter, a query parameter or both, the body parameter first or
\* last: post /u/{id} where the path parameter is declared, post /p otherwise
NameParameter == [in |-> "query", name |-> nName, required |-> FALSE, type |-> "string"]
IdParameter == [in |-> "path", name |-> nId, required |-> TRUE, type |-> "integer"]

MixedLists ==
  LET others == {<<>>, <<NameParameter>>, <<IdParameter>>, <<IdParameter, NameParameter>>}
  IN UNION {{<<b>> \o o, o \o <<b>>} : <<b, o>> \in BodyParameters \X others}

MixedUrl(parameters) == IF InSeq(IdParameter, parameters) THEN UserUrl ELSE ProductsUrl

MixedDocument(parameters) ==
  [basePath |-> BasePath,
   paths |-> << <<MixedUrl(parameters), << <<verbPost, [parameters |-> parameters]>> >> >> >>,
   definitions |-> Definitions]

\* post /v1/u/5 or post /v1/p with the bodies of the body parameter and,
\* where the operation declares the query parameter, with or without it
MixedRequests(swaggerParameters) ==
  LET queries == {Obj(<<>>)} \cup
                   (IF InSeq(NameParameter, swaggerParameters)
                      THEN {Obj(<< <<nName, sX>> >>)} ELSE {})
      declared == InSeq(IdParameter, swaggerParameters)
  IN {Request(POST,
              BasePath \o (IF declared THEN <<"/", "u", "/", "5">> ELSE ProductsUrl),
              q,
              IF declared THEN Obj(<< <<nId, s5>> >>) ELSE Obj(<<>>),
              r.body) :
        <<q, r>> \in queries \X RequestsFor(swaggerParameters)}

InitMixed ==
  \E parameters \in MixedLists, strict \in BOOLEAN :
    /\ AfterConstructor(Doc(MixedDocument(parameters)),
                        Opt([strict |-> Bool(strict), onError |-> aFunction]))
    /\ handler = HandlerOf(validator, verbPost, MixedUrl(parameters))
    /\ req = NoRequest
    /\ outcome = NoOutcome

\* a request reaches the middleware post(url) returned
HandleMixed ==
  /\ handler.kind = "generic"
  /\ ~outcome.called
  /\ \E r \in MixedRequests(handler.swaggerParameters) :
       /\ req' = r
       /\ outcome' = GeneriqueMiddleware(validator, handler.swaggerParameters, r)
  /\ UNCHANGED <<ctor, validator, handler>>

SpecMixed == InitMixed /\ [][HandleMixed]_vars

(***************************************************************************)
(* What the calls recorded in a state are compared with: the request and   *)
(* the declarations read directly, without the validator's own functions   *)
(***************************************************************************)
Errors == outcome.errors
Parameters == handler.swaggerParameters

\* the middleware was called and getErrors returned its errors
Returned == outcome.called /\ ~outcome.thrown

\* the options object handed to the constructor sets the option to the value
OptionIs(name, value) ==
  /\ ctor.options.k = "object"
  /\ name \in DOMAIN ctor.options.fields
  /\ ctor.options.fields[name] = value

StrictEnabled == OptionIs("strict", Bool(TRUE))

\* the map of the request that holds the parameters of a location
MapOf(location) ==
  CASE location = "query" -> req.query
    [] location = "path" -> req.params
    [] OTHER -> IF req.body.k = "object" THEN req.body ELSE Obj(<<>>)

HasKey(map, key) == \E i \in 1..Len(map.v) : map.v[i][1] = key

ValueOf(map, key) == map.v[CHOOSE i \in 1..Len(map.v) : map.v[i][1] = key][2]

\* the request carries no value under the parameter's name at its location
Absent(parameter) == ~HasKey(MapOf(parameter.in), parameter.name)

\* the request carries the value null under the parameter's name at its location
HoldsNull(parameter) ==
  /\ HasKey(MapOf(parameter.in), parameter.name)
  /\ ValueOf(MapOf(parameter.in), parameter.name) = Null

Required(parameter) == "required" \in DOMAIN parameter /\ parameter.required = TRUE

IsNotSpecified(e) == Len(e) = 3 /\ e[3] = " is not specified."
IsShouldNotBeSpecified(e) == Len(e) = 3 /\ e[3] = " should not be specified."

RECURSIVE NotSpecifiedOf(_, _)
\* the 'not specified' errors of the parameters numbered in missing, from the
\* i-th on, in declaration order
NotSpecifiedOf(missing, i) ==
  IF i > Len(Parameters) THEN <<>>
  ELSE (IF i \in missing THEN << <<"Parameter : ", Parameters[i].name, " is not specified.">> >>
        ELSE <<>>) \o NotSpecifiedOf(missing, i + 1)

IsIntegerLiteral(value) ==
  /\ value.k = "string"
  /\ value.v # <<>>
  /\ \A i \in 1..Len(value.v) : value.v[i] \in Digits

\* the parameter is supplied with a value of its type that is among its enum,
\* or it is optional and left out
SuppliedConformingOrOmitted(parameter) ==
  IF Absent(parameter)
    THEN ~Required(parameter)
    ELSE LET value == ValueOf(MapOf(parameter.in), parameter.name)
         IN /\ parameter.type = "integer" /\ IsIntegerLiteral(value)
            /\ "enum" \in DOMAIN parameter
                 => \E i \in 1..Len(parameter.enum) : parameter.enum[i] = value

\* C2: with strict mode disabled, a request that supplies every required
\* parameter, and every parameter it supplies with a conforming type and enum
\* membership, yields an empty error sequence, whatever undeclared fields it
\* carries and whichever optional parameters it omits.
C2_ConformingYieldsNoError ==
  ( /\ outcome.called
    /\ ~StrictEnabled
    /\ \A i \in 1..Len(Parameters) : SuppliedConformingOrOmitted(Parameters[i]) )
  => Returned /\ Errors = <<>>

(***************************************************************************)
(* C8: strict mode, keys of the query, the path variables and the form     *)
(***************************************************************************)
\* a parameter of the operation is declared at the location under the name
Declared(location, key) ==
  \E i \in 1..Len(Parameters) : Parameters[i].in = location /\ Parameters[i].name = key

\* one 'should not be specified' error for each key of the map that no
\* parameter of the location declares, in the order of the keys
UndeclaredIn(location, map) ==
  LET undeclared(pair) == ~Declared(location, pair[1])
      pairs == SelectSeq(map.v, undeclared)
  IN [i \in 1..Len(pairs) |-> <<"Parameter : ", pairs[i][1], " should not be specified.">>]

\* C8: for an operation declaring query, path and formData parameters, in
\* strict mode the 'should not be specified' errors returned are exactly one
\* for each key of the query map, of the path-variable map and of the form
\* body that no parameter of the same location and name declares, and none for
\* a key that matches one; with strict mode disabled there is none at all.
C8_StrictUndeclaredKeys ==
  Returned =>
    SelectSeq(Errors, IsShouldNotBeSpecified)
      = IF StrictEnabled
          THEN UndeclaredIn("query", req.query) \o UndeclaredIn("path", req.params)
                 \o UndeclaredIn("formData", MapOf("formData"))
          ELSE <<>>

\* strict mode: the query carries the declared a and the key b that is
\* declared as a form field only; b alone is reported
C8_Witness ==
  /\ Returned
  /\ StrictEnabled
  /\ HasKey(req.query, nA) /\ Declared("query", nA)
  /\ HasKey(req.query, nB) /\ Declared("formData", nB) /\ ~Declared("query", nB)
  /\ SelectSeq(Errors, IsShouldNotBeSpecified)
       = << <<"Parameter : ", nB, " should not be specified.">> >>

\* strict mode disabled: an undeclared key is sent and nothing is reported
C8_WitnessNotStrict ==
  /\ Returned
  /\ ~StrictEnabled
  /\ HasKey(req.query, nX)
  /\ Errors = <<>>

(***************************************************************************)
(* C3: how a middleware ends                                               *)
(***************************************************************************)
\* the options handed to the constructor carry a function as onError
OnErrorConfigured ==
  /\ ctor.options.k = "object"
  /\ "onError" \in DOMAIN ctor.options.fields
  /\ ctor.options.fields.onError.k = "function"

\* C3: a call of a middleware, per-method or all(), whose check returned its
\* error sequence ends in exactly one way: with no error, next is called once
\* without argument and onError is not called; with errors and onError
\* configured, onError is called once with all the errors and next is not
\* called; with errors and no onError, next is called once with the errors.
C3_OneOutcome ==
  Returned =>
    IF Errors = <<>>
      THEN outcome.next = << <<>> >> /\ outcome.onError = <<>>
    ELSE IF OnErrorConfigured
      THEN outcome.onError = <<Errors>> /\ outcome.next = <<>>
    ELSE outcome.next = << <<Errors>> >> /\ outcome.onError = <<>>

\* the all() middleware rejects a request through the configured onError
C3_Witness ==
  /\ handler.kind = "all"
  /\ Returned
  /\ OnErrorConfigured
  /\ Len(Errors) = 2
  /\ outcome.onError = <<Errors>>
  /\ outcome.next = <<>>

(***************************************************************************)
(* C4: the default of allowNull                                            *)
(***************************************************************************)
\* no allowNull was handed to the constructor: no options at all, or an
\* options object without the field
AllowNullNotSupplied ==
  \/ ctor.options = Undefined
  \/ ctor.options.k = "object" /\ "allowNull" \notin DOMAIN ctor.options.fields

\* C4: a validator constructed without an allowNull option, the options left
\* out or given with other fields only, has allowNull = true, and a null in a
\* body it checks is no type error.
C4_AllowNullDefaultsToTrue ==
  (Constructed /\ AllowNullNotSupplied) =>
    /\ validator._allowNull = TRUE
    /\ ( /\ handler.kind = "generic"
         /\ handler.url = TimeUrl
         /\ req.body = Obj(<< <<nTime, Null>> >>)
         /\ outcome.called )
       => ~(\E i \in 1..Len(Errors) : Errors[i][Len(Errors[i])] = " does not respect its type.")

(***************************************************************************)
(* C6, C7: what the constructor refuses                                    *)
(***************************************************************************)
\* the document handed to the constructor is an object with paths
ValidDocument == "doc" \in DOMAIN ctor.swagger /\ "paths" \in DOMAIN ctor.swagger.doc

\* the option is supplied with a value of another type than kind
WrongTyped(name, kind) ==
  /\ name \in DOMAIN ctor.options.fields
  /\ ctor.options.fields[name].k # kind

\* the options are left out, or an object whose supplied fields have their types
WellTypedOptions ==
  \/ ctor.options = Undefined
  \/ /\ ctor.options.k = "object"
     /\ ~WrongTyped("onError", "function")
     /\ ~WrongTyped("strict", "boolean")
     /\ ~WrongTyped("allowNull", "boolean")

\* C6: the constructor throws when the document is missing, is no object or
\* has no paths, when the options are supplied and are no object, and for
\* every supplied option of the wrong type, falsy values included; with a
\* valid document and well-typed options it does not throw.
C6_ConstructionFaults ==
  ctor.called => (ctor.thrown # "" <=> ~(ValidDocument /\ WellTypedOptions))

\* C7: constructing from a document that has paths and no definitions, with
\* well-typed options, throws nothing.
C7_NoDefinitionsConstructs ==
  ( /\ ctor.called
    /\ ValidDocument
    /\ "definitions" \notin DOMAIN ctor.swagger.doc
    /\ WellTypedOptions )
  => ctor.thrown = ""

(***************************************************************************)
(* C10: all() and the urls of no template                                  *)
(***************************************************************************)
\* C10: the all() middleware, given a url for which the lookup of the
\* template finds none, calls next once without argument, checks nothing,
\* sets no status and calls no onError, whatever the method, query and body.
C10_UnknownUrlPassesThrough ==
  ( /\ handler.kind = "all"
    /\ outcome.called
    /\ ~getParsingParameters(validator, req.url).found )
  => /\ ~outcome.thrown
     /\ ~outcome.validated
     /\ outcome.next = << <<>> >>
     /\ outcome.onError = <<>>
     /\ outcome.status = 0
     /\ Errors = <<>>

\* a POST with a query and a body to a url of no template passes through
C10_Witness ==
  /\ handler.kind = "all"
  /\ outcome.called
  /\ req.method = POST
  /\ req.url = BasePath \o UnknownUrl \o QueryString(req.query)
  /\ req.query # Obj(<<>>)
  /\ req.body # Undefined
  /\ outcome.next = << <<>> >>
  /\ ~outcome.validated

(***************************************************************************)
(* C5, C9: the payload of a body parameter                                 *)
(***************************************************************************)
\* the body parameter of the operation, which declares no other parameter
BodyParameter == Parameters[1]

\* the value the parameter stands for: the body, or the field of its name
Payload ==
  IF BodyParameter.name = <<>>
    THEN (IF req.body \in {Undefined, Null} THEN Obj(<<>>) ELSE req.body)
  ELSE IF HasKey(MapOf("body"), BodyParameter.name)
    THEN ValueOf(MapOf("body"), BodyParameter.name)
  ELSE Undefined

\* the payload is checked: the parameter is not reported as not specified
PayloadChecked ==
  BodyParameter.name = <<>> \/ HasKey(MapOf("body"), BodyParameter.name)
    \/ ~Required(BodyParameter)

\* the definition '#/definitions/<name>' names in the document handed to the
\* constructor; a node that is no reference stands for itself
Resolved(node) ==
  IF "ref" \in DOMAIN node
    THEN LET name == SubSeq(node.ref, 15, Len(node.ref))
             pairs == ctor.swagger.doc.definitions
         IN pairs[CHOOSE i \in 1..Len(pairs) : pairs[i][1] = name][2]
    ELSE node

\* the property of an object node declared under the key
DeclaredProperty(node, key) ==
  node.properties[CHOOSE i \in 1..Len(node.properties) : node.properties[i][1] = key][2]

DeclaresProperty(node, key) ==
  \E i \in 1..Len(node.properties) : node.properties[i][1] = key

RECURSIVE HasCheckedNull(_, _)
\* the value is null, or holds a null under a declared property or as an
\* element of a declared array, at any depth
HasCheckedNull(value, node) ==
  IF value = Null THEN TRUE
  ELSE LET n == Resolved(node)
       IN CASE n.type = "object" /\ value.k = "object" ->
                 \E i \in 1..Len(value.v) :
                   /\ DeclaresProperty(n, value.v[i][1])
                   /\ HasCheckedNull(value.v[i][2], DeclaredProperty(n, value.v[i][1]))
            [] n.type = "array" /\ value.k = "array" ->
                 \E i \in 1..Len(value.v) : HasCheckedNull(value.v[i], n.items)
            [] OTHER -> FALSE

RECURSIVE HasUndeclared(_, _)
\* the value holds a property its schema does not declare: at the top, in a
\* nested object or in an object that is an element of an array
HasUndeclared(value, node) ==
  LET n == Resolved(node)
  IN CASE n.type = "object" /\ value.k = "object" ->
            \E i \in 1..Len(value.v) :
              IF DeclaresProperty(n, value.v[i][1])
                THEN HasUndeclared(value.v[i][2], DeclaredProperty(n, value.v[i][1]))
                ELSE TRUE
       [] n.type = "array" /\ value.k = "array" ->
            \E i \in 1..Len(value.v) : HasUndeclared(value.v[i], n.items)
       [] OTHER -> FALSE

\* the type error of the body parameter
TypeErrorOfBody ==
  IF BodyParameter.name = <<>>
    THEN <<"Parameter : Playload within the body does not respect its type.">>
    ELSE <<"Parameter : ", BodyParameter.name, " does not respect its type.">>

\* the extra values error of the body parameter
ExtraErrorOfBody ==
  IF BodyParameter.name = <<>>
    THEN <<"Parameter : Playload wihtin the body contains extra values.">>
    ELSE <<"Parameter : ", BodyParameter.name, " contains extra values.">>

IsTypeErrorOfBody(e) == e = TypeErrorOfBody
IsExtraErrorOfBody(e) == e = ExtraErrorOfBody

AllowNullEnabled == OptionIs("allowNull", Bool(TRUE))

\* the payload conforms to the schema of the parameter when nulls are accepted
ConformsButForNulls ==
  complexTypeChecking([validator EXCEPT !._allowNull = TRUE], Payload, BodyParameter.schema)
    = "true"

\* schema nodes of each kind: a reference, an object, an array and scalars
NodesOfEachKind ==
  {[ref |-> RefTo(nTimeModel)], [ref |-> RefTo(nOrder)],
   [type |-> "object", properties |-> << <<nS, [type |-> "string"]>> >>],
   [type |-> "array", items |-> [type |-> "integer"]],
   [type |-> "integer"], [type |-> "string"], [type |-> "boolean"]}

\* C5: the structural check of null gives the allowNull flag whatever the
\* schema node; so when the check of a payload returns, a payload that
\* conforms but for a null at a checked place yields exactly one type error
\* if allowNull is false, and a payload that conforms once nulls are
\* accepted yields no type error (no error at all outside strict mode) if
\* allowNull is true.
C5_NullFollowsAllowNull ==
  /\ \A node \in NodesOfEachKind :
       complexTypeChecking(validator, Null, node)
         = IF AllowNullEnabled THEN "true" ELSE "false"
  /\ (Returned /\ PayloadChecked /\ ConformsButForNulls) =>
       IF AllowNullEnabled
         THEN /\ SelectSeq(Errors, IsTypeErrorOfBody) = <<>>
              /\ ~StrictEnabled => Errors = <<>>
         ELSE HasCheckedNull(Payload, BodyParameter.schema)
                => SelectSeq(Errors, IsTypeErrorOfBody) = <<TypeErrorOfBody>>

\* allowNull is false and the payload {code: 30, sub: {s: null}} conforms but
\* for the null two levels down: one type error
C5_Witness ==
  /\ Returned
  /\ ~AllowNullEnabled
  /\ Payload = Obj(<< <<nCode, Num(300)>>, <<nSub, Obj(<< <<nS, Null>> >>)>> >>)
  /\ Errors = <<TypeErrorOfBody>>

\* C9: in strict mode, a conforming payload that is an object and holds an
\* undeclared property anywhere, whatever the value of that property, yields
\* exactly one 'contains extra values' error naming the parameter or the
\* payload; one that holds none yields no such error.
C9_OneExtraValuesError ==
  ( /\ outcome.called
    /\ StrictEnabled
    /\ PayloadChecked
    /\ Payload.k = "object"
    /\ complexTypeChecking(validator, Payload, BodyParameter.schema) = "true" )
  => IF HasUndeclared(Payload, BodyParameter.schema)
       THEN Returned /\ SelectSeq(Errors, IsExtraErrorOfBody) = <<ExtraErrorOfBody>>
       ELSE Returned => SelectSeq(Errors, IsExtraErrorOfBody) = <<>>

(***************************************************************************)
(* C11, C12: the lookup of the template and the path variables             *)
(***************************************************************************)
\* the templates of the document whose pattern the url matches
MatchingTemplates ==
  {i \in 1..Len(validator._parsingParameters) :
     Match(req.url, validator._basePath \o validator._parsingParameters[i].regexp \o LookupTail,
           FlagsGMI).ok}

\* C11: when the url given to the all() middleware matches more than one
\* template of the document, the lookup throws instead of returning the first
\* template that matches: the call ends in a fault.
C11_AmbiguousRouteFaults ==
  (handler.kind = "all" /\ outcome.called /\ Cardinality(MatchingTemplates) > 1)
    => outcome.thrown

\* the url without its query string and without one trailing slash, cut at '/'
SegmentsOf(url) ==
  LET marks == {i \in 1..Len(url) : url[i] = "?"}
      path == IF marks = {} THEN url
              ELSE SubSeq(url, 1, (CHOOSE i \in marks : \A j \in marks : i <= j) - 1)
      trimmed == IF path # <<>> /\ path[Len(path)] = "/"
                   THEN SubSeq(path, 1, Len(path) - 1) ELSE path
  IN Split(trimmed, "/")

IsPlaceholder(segment) ==
  Len(segment) >= 3 /\ segment[1] = "{" /\ segment[Len(segment)] = "}"

\* the url is the base path followed by the template with a segment in place
\* of each placeholder
IsInstanceOf(url, template) ==
  LET us == SegmentsOf(url)
      ts == Split(BasePath \o template, "/")
  IN /\ Len(us) = Len(ts)
     /\ \A i \in 1..Len(ts) : IsPlaceholder(ts[i]) \/ ts[i] = us[i]

\* each variable of the template with the segment of the url at its place
SegmentsOfVariables(url, template) ==
  LET us == SegmentsOf(url)
      ts == Split(BasePath \o template, "/")
      places == SelectSeq([i \in 1..Len(ts) |-> i], LAMBDA i : IsPlaceholder(ts[i]))
  IN [k \in 1..Len(places) |->
        <<SubSeq(ts[places[k]], 2, Len(ts[places[k]]) - 1), Str(us[places[k]])>>]

\* C12: for the template the lookup found and a url that is an instance of
\* it, the path variables extracted map each variable, in placeholder order,
\* to the segment of the url at its own place.
C12_VariablesGetOwnSegments ==
  ( /\ handler.kind = "all"
    /\ outcome.called
    /\ MatchingTemplates # {}
    /\ IsInstanceOf(req.url, getParsingParameters(validator, req.url).parsingParameters.swaggerUrl) )
  => getPathParametersFromUrl(req.url, getParsingParameters(validator, req.url).parsingParameters)
       = Obj(SegmentsOfVariables(req.url,
               getParsingParameters(validator, req.url).parsingParameters.swaggerUrl))

(***************************************************************************)
(* C13: registration of a per-method handler                               *)
(***************************************************************************)
\* the path the express form of a url stands for: ':id' reads '{id}'
BraceForm(url) == IF url = UserUrlColon THEN UserUrl ELSE url

\* the verb a request method stands for
VerbOf(method) ==
  CASE method = GET -> verbGet
    [] method = POST -> verbPost
    [] method = PUT -> verbPut
    [] OTHER -> method

\* the operations the document declares under the path and verb: one or none
OperationsAt(url, verb) ==
  LET paths == ctor.swagger.doc.paths
  IN {paths[i][2][j][2] : <<i, j>> \in
        {<<i, j>> \in (1..Len(paths)) \X (1..6) :
           /\ paths[i][1] = url
           /\ j <= Len(paths[i][2])
           /\ paths[i][2][j][1] = verb}}

\* the parameters an operation declares, none if it declares no list
DeclaredParameters(operation) ==
  IF "parameters" \in DOMAIN operation THEN operation.parameters ELSE <<>>

\* C13: registering a handler resolves the operation under the path with every
\* ':name' read as '{name}' and the method in lower case; it throws exactly
\* when the document has no operation for that method and path, and otherwise
\* binds the parameters the operation declares, the empty list if it declares
\* none.
C13_RegistrationResolves ==
  /\ handler.kind \in {"generic", "thrown"} =>
       LET found == OperationsAt(BraceForm(handler.url), handler.verb)
       IN /\ handler.kind = "thrown" <=> found = {}
          /\ handler.kind = "generic" =>
               \E operation \in found : handler.swaggerParameters = DeclaredParameters(operation)
  /\ Constructed =>
       \A method \in {GET, POST, PUT}, url \in RegisteredUrls :
         getRequiredParameters(validator, method, url)
           = getRequiredParameters(validator, VerbOf(method), BraceForm(url))

\* get('/u/:id') is registered and binds the parameters of get /u/{id}
C13_Witness ==
  /\ handler.kind = "generic"
  /\ handler.url = UserUrlColon
  /\ handler.verb = verbGet
  /\ Len(handler.swaggerParameters) = 1
  /\ handler.swaggerParameters[1].name = nId

(***************************************************************************)
(* C14: a call of the middleware changes nothing                           *)
(***************************************************************************)
\* the validator a fresh call of the constructor with the same arguments makes
FreshlyConstructed == Constructor(ctor.swagger, ctor.options).self

C15_FailuresAreData == outcome.called => ~outcome.thrown

(***************************************************************************)
(* C16: the message of a type error                                        *)
(***************************************************************************)
\* a string holding a character no integer literal holds
IsNoIntegerLiteral(value) ==
  /\ value.k = "string"
  /\ \E i \in 1..Len(value.v) :
       value.v[i] \notin Digits \cup {"+", "-", "I", "n", "f", "i", "t", "y"}

\* C16: a value that fails the primitive type check of a declared parameter
\* named N yields the error 'Parameter : N does not respect its type.', for a
\* query, a path and a formData parameter alike.
C16_TypeErrorMessage ==
  Returned =>
    \A i \in 1..Len(Parameters) :
      ( /\ Parameters[i].type = "integer"
        /\ ~Absent(Parameters[i])
        /\ IsNoIntegerLiteral(ValueOf(MapOf(Parameters[i].in), Parameters[i].name)) )
      => \E j \in 1..Len(Errors) :
           Errors[j] = <<"Parameter : ", Parameters[i].name, " does not respect its type.">>

(***************************************************************************)
(* C17: the enum of a query parameter                                      *)
(***************************************************************************)
\* how many times the error occurs in the sequence
Occurrences(errors, e) == Cardinality({j \in 1..Len(errors) : errors[j] = e})

UnauthorizedOf(parameter) == <<"Parameter : ", parameter.name, " has an unauthorized value.">>

AmongEnum(parameter, value) == \E k \in 1..Len(parameter.enum) : parameter.enum[k] = value

\* C17: for a query parameter that declares an enum, a non-empty value
\* outside the enum yields exactly one 'has an unauthorized value' error, a
\* value inside the enum yields none, and an absent or empty value yields none
\* when the parameter is not required.
C17_QueryEnum ==
  Returned =>
    \A i \in 1..Len(Parameters) :
      (Parameters[i].in = "query" /\ "enum" \in DOMAIN Parameters[i]) =>
        LET parameter == Parameters[i]
            unauthorized == Occurrences(Errors, UnauthorizedOf(parameter))
        IN IF Absent(parameter)
             THEN ~Required(parameter) => unauthorized = 0
             ELSE LET value == ValueOf(req.query, parameter.name)
                  IN /\ (value = sEmpty /\ ~Required(parameter)) => unauthorized = 0
                     /\ AmongEnum(parameter, value) => unauthorized = 0
                     /\ (value # sEmpty /\ ~AmongEnum(parameter, value)) => unauthorized = 1

\* two query parameters declare the enum ['5']: the first is sent as '5' and
\* yields nothing, the second is sent as 'x' and the only unauthorized-value
\* error names it
C17_Witness ==
  /\ Returned
  /\ Len(Parameters) = 2
  /\ \A i \in 1..2 : Parameters[i].in = "query" /\ "enum" \in DOMAIN Parameters[i]
  /\ ~Absent(Parameters[1]) /\ ValueOf(req.query, nA) = s5
  /\ ~Absent(Parameters[2]) /\ ValueOf(req.query, nB) = sX
  /\ Occurrences(Errors, UnauthorizedOf(Parameters[1])) = 0
  /\ Occurrences(Errors, UnauthorizedOf(Parameters[2])) = 1

(***************************************************************************)
(* C18: formData parameters are checked as query parameters are            *)
(***************************************************************************)
\* the check an error reports: required, type or enum
KindOf(e) ==
  CASE e[3] = " is not specified." -> "required"
    [] e[3] = " has an unauthorized value." -> "enum"
    [] e[3] = " should not be specified." -> "strict"
    [] e[3] = " contains extra values." -> "strict"
    [] OTHER -> "type"

KindsOf(errors) == [j \in 1..Len(errors) |-> KindOf(errors[j])]

\* the required, type and enum errors returned that name the parameter
ErrorsNaming(parameter) ==
  LET names(e) == Len(e) = 3 /\ e[2] = parameter.name /\ KindOf(e) # "strict"
  IN SelectSeq(Errors, names)

\* the errors of the same declaration located in query, its value read from a
\* query map that holds what the body holds under the name
AsQueryParameter(parameter) ==
  LET twin == [parameter EXCEPT !.in = "query"]
      query == IF Absent(parameter) THEN Obj(<<>>)
               ELSE Obj(<< <<parameter.name, ValueOf(MapOf("formData"), parameter.name)>> >>)
  IN ParameterErrors(validator, twin, query, Obj(<<>>), Obj(<<>>)).errors

\* C18: a formData parameter, its value absent or a string read from the
\* body, yields errors of the same kinds (required, type, enum) as the same
\* declaration located in query with the value read from the query map.
C18_FormDataAsQuery ==
  Returned =>
    \A i \in 1..Len(Parameters) :
      ( /\ Parameters[i].in = "formData"
        /\ Absent(Parameters[i]) \/ ValueOf(MapOf("formData"), Parameters[i].name).k = "string" )
      => KindsOf(ErrorsNaming(Parameters[i])) = KindsOf(AsQueryParameter(Parameters[i]))

(***************************************************************************)
(* C19: the body parameter                                                 *)
(***************************************************************************)
\* the parameter is named and required and the body holds no field of its name
NamedRequiredAbsent ==
  /\ BodyParameter.name # <<>>
  /\ Required(BodyParameter)
  /\ ~HasKey(MapOf("body"), BodyParameter.name)

IsRequiredOrTypeError(e) == e = TypeErrorOfBody \/ (Len(e) = 3 /\ KindOf(e) \in {"required", "type"})

\* C19: if the body parameter is named and required and the body holds no
\* field of its name, the result is exactly one 'not specified' error, in
\* strict and non-strict mode alike; otherwise the structural check runs on
\* the named field, or on the whole body when the name is empty, and a failure
\* yields exactly one type error naming the parameter or the payload.
C19_BodyParameter ==
  outcome.called =>
    IF NamedRequiredAbsent
      THEN /\ Returned
           /\ Errors = << <<"Parameter : ", BodyParameter.name, " is not specified.">> >>
      ELSE Returned =>
             SelectSeq(Errors, IsRequiredOrTypeError)
               = IF complexTypeChecking(validator, Payload, BodyParameter.schema) = "false"
                   THEN <<TypeErrorOfBody>> ELSE <<>>

(***************************************************************************)
(* C20: the order of the errors, and strict mode as an extension           *)
(***************************************************************************)
\* what the validator, its strict option set to the flag and nothing else
\* changed, returns for the request the handler was called with
ErrorsWithStrict(flag) ==
  getErrors([validator EXCEPT !._strict = Bool(flag)], Parameters,
            req.query, req.params, BodyOrEmpty(req.body))

IsPrefix(s, t) == Len(s) <= Len(t) /\ SubSeq(t, 1, Len(s)) = s

IsStrictError(e) ==
  \/ e = PayloadExtraValues
  \/ Len(e) = 3 /\ KindOf(e) = "strict"

\* C20: for every request for which the validator with strict mode disabled
\* produces an error sequence, the validator with strict mode enabled
\* produces one too, the former is a prefix of the latter, it holds the
\* required, type and enum errors only, and what follows it holds the
\* extra-field errors only.
C20_StrictExtends ==
  outcome.called =>
    LET off == ErrorsWithStrict(FALSE)
        on == ErrorsWithStrict(TRUE)
    IN ~off.thrown =>
         /\ ~on.thrown
         /\ IsPrefix(off.errors, on.errors)
         /\ \A j \in 1..Len(on.errors) : IsStrictError(on.errors[j]) <=> j > Len(off.errors)

(***************************************************************************)
(* C21: urls of declared templates are recognized                          *)
(***************************************************************************)
\* the middleware called next() without having run getErrors
PassedUnvalidated == outcome.next = << <<>> >> /\ ~outcome.validated

\* C21: every url made of the base path and an instance of a declared
\* template, with or without a trailing slash and with or without a query
\* string, whatever the query string holds, is recognized by the lookup, and
\* the all() middleware does not pass its request through unvalidated.
C21_InstancesAreRecognized ==
  outcome.called =>
    /\ getParsingParameters(validator, req.url).found
    /\ ~PassedUnvalidated

(***************************************************************************)
(* C22: every present query or path value is type checked                  *)
(***************************************************************************)
\* the characters after an optional sign
Unsign(chars) == IF chars # <<>> /\ chars[1] \in {"+", "-"} THEN Tail(chars) ELSE chars

\* an optionally signed digit sequence or optionally signed 'Infinity'
IsIntegerString(chars) ==
  LET body == Unsign(chars)
  IN \/ body # <<>> /\ \A i \in 1..Len(body) : body[i] \in {"0", "1", "2", "3", "4", "5", "6", "7", "8", "9"}
     \/ body = <<"I", "n", "f", "i", "n", "i", "t", "y">>

\* the type errors returned that name the parameter
TypeErrorsNaming(parameter) ==
  LET names(e) == Len(e) = 3 /\ e[2] = parameter.name /\ KindOf(e) = "type"
  IN SelectSeq(Errors, names)

\* C22: a query or path parameter of type integer that is present in the
\* request with a string value, the empty string included, yields exactly one
\* type error naming it when the value is no integer, and none when it is.
C22_PresentValuesAreChecked ==
  Returned =>
    \A i \in 1..Len(Parameters) :
      ( /\ Parameters[i].in \in {"query", "path"}
        /\ Parameters[i].type = "integer"
        /\ ~Absent(Parameters[i])
        /\ ValueOf(MapOf(Parameters[i].in), Parameters[i].name).k = "string" )
      => Len(TypeErrorsNaming(Parameters[i]))
           = IF IsIntegerString(ValueOf(MapOf(Parameters[i].in), Parameters[i].name).v)
               THEN 0 ELSE 1

(***************************************************************************)
(* C23: the primitive check of a string                                    *)
(***************************************************************************)
RECURSIVE DigitRun(_, _)
\* the number of digits the string holds in a row from position pos on
DigitRun(chars, pos) ==
  IF pos <= Len(chars) /\ chars[pos] \in {"0", "1", "2", "3", "4", "5", "6", "7", "8", "9"}
    THEN 1 + DigitRun(chars, pos + 1) ELSE 0

\* an optionally signed digit sequence followed by one fractional part: a
\* point and a digit sequence
IsDecimalString(chars) ==
  LET body == Unsign(chars)
      whole == DigitRun(body, 1)
      frac == DigitRun(body, whole + 2)
  IN /\ whole > 0
     /\ whole < Len(body) /\ body[whole + 1] = "."
     /\ frac > 0
     /\ whole + 1 + frac = Len(body)

\* what the primitive check is to answer for a string and a declaration
AcceptedAs(chars, parameter) ==
  CASE parameter.type = "integer" -> IsIntegerString(chars)
    [] parameter.type = "number" ->
         IF "format" \in DOMAIN parameter /\ parameter.format \in {"float", "double"}
           THEN IsIntegerString(chars) \/ IsDecimalString(chars)
           ELSE IsIntegerString(chars)
    [] parameter.type = "boolean" ->
         chars \in {<<"t", "r", "u", "e">>, <<"f", "a", "l", "s", "e">>}
    [] parameter.type = "string" -> TRUE

Checked == outcome.called /\ outcome.op = "complexTypeChecking"

\* the node at hand, a reference replaced by the definition it names
NodeChecked == Resolved(req.node)

IsObjectNode(node) == "type" \in DOMAIN node /\ node.type = "object" /\ "properties" \in DOMAIN node
IsArrayNode(node) == "type" \in DOMAIN node /\ node.type = "array" /\ "items" \in DOMAIN node

\* the property is listed in the required set of the object node
ListedRequired(node, key) ==
  "required" \in DOMAIN node /\ \E i \in 1..Len(node.required) : node.required[i] = key

\* the structural check answers that the value conforms to the node
ConformsTo(value, node) == complexTypeChecking(validator, value, node) = "true"

\* C24: for an object node and an object value, the check conforms if and
\* only if every declared property that is listed as required or defined on
\* the value is defined on the value and conforms to its property schema: a
\* required property that is missing makes the object non-conforming, an
\* optional one that is missing is not checked, and undeclared properties
\* have no effect.
C24_ObjectConformance ==
  (Checked /\ req.value.k = "object" /\ IsObjectNode(NodeChecked)) =>
    ( outcome.result = "true"
      <=> \A i \in 1..Len(NodeChecked.properties) :
            LET key == NodeChecked.properties[i][1]
            IN (ListedRequired(NodeChecked, key) \/ HasKey(req.value, key))
                 => /\ HasKey(req.value, key)
                    /\ ConformsTo(ValueOf(req.value, key), NodeChecked.properties[i][2]) )

\* C25: a value that is no object (a string, a number, a boolean, an array or
\* undefined) does not conform to an object node, whatever its required set
\* and its properties.
C25_NonObjectsFail ==
  ( /\ Checked
    /\ req.value.k \in {"string", "number", "boolean", "array", "undefined"}
    /\ IsObjectNode(NodeChecked) )
  => outcome.result # "true"

\* the element has the runtime kind a scalar items node declares, or conforms
\* to an items node that is no scalar
ElementConforms(element, items) ==
  IF element = Null THEN validator._allowNull
  ELSE IF "type" \in DOMAIN items /\ items.type \in {"integer", "number", "string", "boolean"}
    THEN CASE items.type = "integer" -> element.k = "number" /\ element.v % 10 = 0
           [] OTHER -> element.k = items.type
  ELSE ConformsTo(element, items)

AnswerFor(value, node) ==
  IF outcome.op = "complexTypeChecking"
    THEN complexTypeChecking(validator, value, node)
    ELSE isThereVariablesThatShouldNotBeSpecified(validator, value, node)

\* C27: the structural check and the strict walk of a value other than null
\* against a reference give what they give against the definition the
\* reference names, also when that definition is itself a reference.
C27_ReferencesAreTransparent ==
  (outcome.called /\ req.value # Null /\ HasRef(req.node)) =>
    outcome.result = AnswerFor(req.value, Resolved(req.node))

(***************************************************************************)
(* C28: the structural check terminates                                    *)
(***************************************************************************)
RECURSIVE PayloadDepth(_)
\* the levels of a payload: none for undefined, one for a scalar, null or an
\* empty container, one more than its deepest member for a container
PayloadDepth(value) ==
  CASE value.k = "undefined" -> 0
    [] value.k = "object" ->
         1 + (IF value.v = <<>> THEN 0
              ELSE Largest({PayloadDepth(value.v[i][2]) : i \in 1..Len(value.v)}))
    [] value.k = "array" ->
         1 + (IF value.v = <<>> THEN 0
              ELSE Largest({PayloadDepth(value.v[i]) : i \in 1..Len(value.v)}))
    [] OTHER -> 1

\* C28: the structural check ends on every payload and every schema, those
\* whose definitions refer to themselves through a required property, an
\* optional property or the items of an array included: the recursion never
\* outgrows the call stack, its depth is at most the depth of the payload
\* plus one, and it gives what complexTypeChecking gives.
C28_CheckTerminates ==
  Checked =>
    /\ outcome.calls.r # "RangeError"
    /\ outcome.calls.r = outcome.result
    /\ outcome.calls.d <= PayloadDepth(req.value) + 1

\* {next: {next: {next: 'x'}}} was checked against Node, whose required
\* property next refers to Node: the recursion went five calls deep and ended
C28_Witness ==
  /\ Checked
  /\ req.node = [ref |-> RefTo(nNode)]
  /\ req.value = Obj(<< <<nNext, Obj(<< <<nNext, Obj(<< <<nNext, sX>> >>)>> >>)>> >>)
  /\ outcome.calls.d = 5

(***************************************************************************)
(* C29: strict mode and the body parameter of an operation that declares   *)
(* other parameters                                                        *)
(***************************************************************************)
\* the body parameter the operation declares
DeclaredBody == Parameters[CHOOSE i \in 1..Len(Parameters) : Parameters[i].in = "body"]

\* the payload of the body parameter: the body, or the field of its name
DeclaredPayload ==
  IF DeclaredBody.name = <<>> THEN BodyOrEmpty(req.body)
  ELSE Get(BodyOrEmpty(req.body), DeclaredBody.name)

\* the strict errors of the response
ExtraFieldErrors == SelectSeq(Errors, IsStrictError)

\* C29: in strict mode the payload of the body parameter an operation
\* declares is walked against its schema, whatever path and query parameters
\* the operation declares besides: a payload with an undeclared key yields
\* the extra values error of the parameter and nothing else, and a
\* conforming payload yields no extra-field error (the requests carry no
\* undeclared query or path key).
C29_BodyIsWalked ==
  (Returned /\ StrictEnabled) =>
    LET walk == isThereVariablesThatShouldNotBeSpecified(validator, DeclaredPayload,
                                                         DeclaredBody.schema)
    IN /\ walk = "true" =>
            ExtraFieldErrors = << IF DeclaredBody.name = <<>> THEN PayloadExtraValues
                                  ELSE ExtraValues(DeclaredBody.name) >>
       /\ (walk = "false"
             /\ complexTypeChecking(validator, DeclaredPayload, DeclaredBody.schema) = "true") =>
            ExtraFieldErrors = <<>>

(***************************************************************************)
(* C30: no operation-not-found fault while a request is processed          *)
(***************************************************************************)
\* the template the lookup of the all() middleware settles on: the first one
\* whose pattern the url of the request matches
FirstMatchingTemplate ==
  validator._parsingParameters[CHOOSE i \in MatchingTemplates :
                                 \A j \in MatchingTemplates : i <= j].swaggerUrl

\* C30: the middleware all() returned raises no fault while it processes a
\* request whose url matches a template of the document under which the
\* method of the request has no operation.
C30_NoRouteFaultOnRequest ==
  (outcome.called /\ handler.kind = "all" /\ MatchingTemplates # {}) =>
    (OperationsAt(FirstMatchingTemplate, VerbOf(req.method)) = {} => ~outcome.thrown)

====
